---- MODULE Spec2Model ----
(***************************************************************************)
(* Template engine of the crystal-bracelet service: fillVars / render /    *)
(* evalExpr with the shared expression cache (utils/fillVars.js), the      *)
(* helper compiler (utils/compileHelper.js) and the helper-module loader   *)
(* (utils/loadHelperModule.js).                                            *)
(*                                                                         *)
(* Text is a sequence of tokens.  A token is one character ("{", "}", " ") *)
(* or one indivisible lexeme: an identifier ("dob", "process"), a one-     *)
(* token expression ("throwNull()" stands for an expression that throws    *)
(* null when it is evaluated) or a piece of generated message text.        *)
(* Indices are 0-based as in the source.                                   *)
(***************************************************************************)
EXTENDS Integers, Sequences, FiniteSets, TLC

VARIABLES
  template,         \* fillVars argument: the raw template
  vars,             \* fillVars argument: a function from keys to values
  helpers,          \* fillVars argument: the set of helper names
  options,          \* fillVars argument: the options record
  pc,               \* "call" | "render" | "done" | "rejected"
  result,           \* the text fillVars resolved to / the value it rejected with
  depth,            \* renderWithDepth's counter
  stack,            \* the active render() frames, innermost last
  ev,               \* the evaluation the innermost frame awaits
  expressionCache,  \* the shared LRUCache: entries oldest first
  hostMath,         \* property x of the host's Math object ("unset" when absent)
  evalLog,          \* expressions handed to evalExpr so far, in order
  lruRet,           \* what the last direct cache operation returned
  helperCache,      \* global.__helperCache: cache key -> bag
  loaded,           \* the last loadHelperModule call: its input and its result
  compiled,         \* the compileHelper call: its input and its result
  everCached,       \* history: the expressions whose script was ever put in the cache
  assembled,        \* the helper assembly of one request: its input and its table
  wt,               \* one withTimeout call: fn, the timer, the race and its outcome
  classified,       \* one classifyError call: the error and what came back
  plain,            \* the outcome of the same call made with debugMode off
  sandbox,          \* the host process of runInSecureContext: NODE_ENV, Object.prototype
  registered,       \* one helper text: its registration and a call of the function
  renders,          \* concurrent fillVars calls: where each one is, what it awaits
  counters,         \* loads of one stateful module: its instances, the tables handed out
  sf                \* one runSecureFunction call: validation, the race, the timer

renderVars == <<template, vars, helpers, options, pc, result, depth, stack, ev,
                expressionCache, hostMath, evalLog>>
tailVars == <<counters, sf>>
moreVars == <<classified, plain, sandbox, registered, renders, tailVars>>
laterVars == <<everCached, assembled, wt, moreVars>>
otherVars == <<lruRet, helperCache, loaded, compiled, laterVars>>
allVars == <<renderVars, otherVars>>

-----------------------------------------------------------------------------
(* Bounds of the model *)

\* deepest nesting of {{ }} in the templates of the model
MaxNest == 3
\* clock ticks that stand for evalExpr's 30 000 ms timeout
TimeoutTicks == 2
\* capacity of the expression cache in the model (5000 in the program)
CacheMaxSize == 2

-----------------------------------------------------------------------------
(* Text helpers: 0-based indexing as in JavaScript *)

At(s, k) == IF k >= 0 /\ k < Len(s) THEN s[k + 1] ELSE ""

Slice(s, a, b) == IF b > a THEN SubSeq(s, a + 1, b) ELSE <<>>

IsSpace(t) == t \in {" ", "\n"}

RECURSIVE TrimStart(_)
TrimStart(s) ==
  IF s # <<>> /\ IsSpace(Head(s)) THEN TrimStart(Tail(s)) ELSE s

RECURSIVE TrimEnd(_)
TrimEnd(s) ==
  IF s # <<>> /\ IsSpace(s[Len(s)]) THEN TrimEnd(SubSeq(s, 1, Len(s) - 1)) ELSE s

Trim(s) == TrimEnd(TrimStart(s))

\* tpl.indexOf('{{', i): -1 when there is none
IndexOfOpen(s, i) ==
  LET hits == {p \in i..(Len(s) - 2) : At(s, p) = "{" /\ At(s, p + 1) = "{"}
  IN IF hits = {} THEN -1 ELSE CHOOSE p \in hits : \A q \in hits : p <= q

\* expr.includes('{{')
IncludesOpen(s) == IndexOfOpen(s, 0) # -1

Min(a, b) == IF a < b THEN a ELSE b
Max(a, b) == IF a > b THEN a ELSE b

-----------------------------------------------------------------------------
(* LRUCache: a Map in insertion order, oldest entry first *)

Undefined == "undefined"

LRUHas(c, k) == \E n \in 1..Len(c) : c[n].key = k

LRUPeek(c, k) ==
  IF LRUHas(c, k) THEN (CHOOSE n \in 1..Len(c) : c[n].key = k) ELSE 0

MapDelete(c, k) ==
  LET n == LRUPeek(c, k)
  IN IF n = 0 THEN c ELSE SubSeq(c, 1, n - 1) \o SubSeq(c, n + 1, Len(c))

\* Map.prototype.set: an existing key keeps its place, a new key goes last
MapSet(c, k, v) ==
  LET n == LRUPeek(c, k)
  IN IF n = 0 THEN Append(c, [key |-> k, value |-> v])
     ELSE [c EXCEPT ![n] = [key |-> k, value |-> v]]

\* get(key) answering with the oldest entry's item
GetOldestItem(c, k) == IF c # <<>> THEN c[1].value ELSE Undefined

\* get(key): the item, and the cache with the entry moved to the newest end
LRUGetItem(c, k) == IF LRUHas(c, k) THEN c[LRUPeek(c, k)].value ELSE Undefined

\* get(key) leaving the entry where it is
GetNoTouch(c, k) == c

LRUGet(c, k) ==
  IF LRUHas(c, k) THEN MapSet(MapDelete(c, k), k, LRUGetItem(c, k)) ELSE c

SetNoEvict(c, k, v, maxSize) == MapSet(c, k, v)

\* set(key, value) emptying a full cache instead of inserting
SetEvictsAll(c, k, v, maxSize) == IF Len(c) >= maxSize THEN <<>> ELSE MapSet(c, k, v)

\* set(key, value): drop the oldest entry when at capacity, then insert
LRUSet(c, k, v, maxSize) ==
  LET kept == IF Len(c) >= maxSize /\ c # <<>> THEN Tail(c) ELSE c
  IN MapSet(kept, k, v)

LRUClear(c) == <<>>

-----------------------------------------------------------------------------
(* Tokens *)

Digits == {"1", "2"}

\* identifiers ([\w]+ lexemes); "a" doubles as one character of literal text
Idents == {"a", "dob", "age", "process", "_utils", "Math"}

\* one-token expressions, named after what evaluating them does
ExprAtoms == {"throwError()", "reject()", "throwNull()", "throwUndefined()",
              "throwHostile()", "spin()", "never()", "setMath()", "getMath()"}

WordTokens == Digits \cup Idents \cup {"toString"}

Operands == Digits \cup Idents \cup ExprAtoms

\* the keys of COMMON
COMMON == {"Math", "Date", "Intl", "console", "fetch", "require", "Buffer", "JSON",
           "Promise", "setTimeout", "clearTimeout", "encodeURI", "decodeURI",
           "encodeURIComponent", "decodeURIComponent", "Object", "Array", "String",
           "Number", "Boolean", "RegExp", "Map", "Set", "WeakMap", "WeakSet"}

\* names every object literal answers to through Object.prototype
ObjectPrototypeKeys == {"toString"}

\* names a fresh vm context defines by itself (the language's own globals)
ContextIntrinsics == {"NaN", "undefined", "toString"}

\* errorHandler's module.exports has no formatConsoleError: fillVars.js
\* destructures it as undefined and calling it raises a TypeError
formatConsoleErrorDefined == FALSE

-----------------------------------------------------------------------------
(* Values thrown and caught *)

Err(name, message) == [kind |-> "Error", name |-> name, message |-> message]
ThrownNull == [kind |-> "null", name |-> "", message |-> ""]
ThrownUndefined == [kind |-> "undefined", name |-> "", message |-> ""]
\* an object whose message getter throws the object itself
ThrownHostile == [kind |-> "hostile", name |-> "", message |-> ""]
NoError == [kind |-> "none", name |-> "", message |-> ""]

\* evalExpr's and withTimeout's 30_000 ms
EVAL_TIMEOUT_MS == 30000

TimeoutError(ms) == Err("TimeoutError", "Operation timed out after " \o ToString(ms) \o "ms")
NotAFunction == Err("TypeError", "formatConsoleError is not a function")

\* reading error.message: the message, or what the read throws
ReadMessage(e) ==
  CASE e.kind = "Error" -> [ok |-> TRUE, message |-> e.message, error |-> NoError]
    [] e.kind = "null" ->
         [ok |-> FALSE, message |-> "",
          error |-> Err("TypeError", "Cannot read properties of null (reading 'message')")]
    [] e.kind = "undefined" ->
         [ok |-> FALSE, message |-> "",
          error |-> Err("TypeError", "Cannot read properties of undefined (reading 'message')")]
    [] OTHER -> [ok |-> FALSE, message |-> "", error |-> e]

-----------------------------------------------------------------------------
(* Markers *)

ErrorMarker(message) == "{{Error: " \o message \o "}}"

DebugErrorMarker(message) ==
  "{{Error: " \o message \o "\nSuggestion: Check syntax and variable names.\nExamples: N/A\n}}"

RenderingErrorMarker(message) == "{{Error in template rendering: " \o message \o "}}"

DebugRenderingErrorMarker(message) ==
  "{{Error in template rendering: " \o message
     \o "\nSuggestion: Check your template syntax for errors.\n}}"

NestedErrorMarker(message) ==
  "{{Error: Failed to process nested template: " \o message \o "}}"

UnclosedMarker(open, debugMode) ==
  IF debugMode
  THEN "{{Error: Unclosed expression starting at position " \o ToString(open)
         \o ".\nSuggestion: Check for missing closing braces '}}'.\n}}"
  ELSE "{{Error: Unclosed expression starting at position " \o ToString(open) \o "}}"

IterationMarker(maxIterations, len, debugMode) ==
  IF debugMode
  THEN "{{Error: Template processing exceeded " \o ToString(maxIterations)
         \o " iterations.\nSuggestion: Your template may contain an infinite loop.\n}}"
  ELSE "{{Error: Template processing exceeded " \o ToString(maxIterations)
         \o " iterations (template length: " \o ToString(len)
         \o ") - possible infinite loop or very complex template}}"

DepthMarker(maxRenderDepth, debugMode) ==
  IF debugMode
  THEN "{{Error: Maximum template nesting depth (" \o ToString(maxRenderDepth)
         \o ") exceeded.\nSuggestion: Your template has too many nested levels.\n}}"
  ELSE "{{Error: Maximum template nesting depth (" \o ToString(maxRenderDepth)
         \o ") exceeded}}"

-----------------------------------------------------------------------------
(* fillVars, before rendering *)

\* the back-tick character (the lexer of TLA+ has no way to write it in a string)
Backtick == "<backtick>"

\* step 0 of fillVars: a backslash goes in front of every back-tick
RECURSIVE EscapeBackticks(_)
EscapeBackticks(s) ==
  IF s = <<>> THEN <<>>
  ELSE IF Head(s) = Backtick THEN <<"\\", Backtick>> \o EscapeBackticks(Tail(s))
  ELSE <<Head(s)>> \o EscapeBackticks(Tail(s))

\* the longest run of \w tokens starting at 0-based position p
RECURSIVE WordRun(_, _)
WordRun(s, p) == IF At(s, p) \in WordTokens THEN 1 + WordRun(s, p + 1) ELSE 0

RECURSIVE JoinTokens(_)
JoinTokens(s) == IF s = <<>> THEN "" ELSE Head(s) \o JoinTokens(Tail(s))

\* k in vars: own keys and what an object literal inherits
InVars(k, vs) == k \in DOMAIN vs \/ k \in ObjectPrototypeKeys

\* String(val), '' for null and undefined
VarText(k, vs) ==
  IF k \in DOMAIN vs
  THEN (IF vs[k].kind \in {"null", "undefined"} THEN <<>> ELSE vs[k].text)
  ELSE <<"function toString() { [native code] }">>

\* one match of /(?<!\{)\{([\w]+)\}(?!\})/ at position p: the length of its name, else 0
PlaceholderAt(s, p) ==
  LET n == WordRun(s, p + 1)
  IN IF At(s, p) = "{" /\ At(s, p - 1) # "{" /\ n > 0
        /\ At(s, p + n + 1) = "}" /\ At(s, p + n + 2) # "}"
     THEN n ELSE 0

\* txt.replace(regex, callback): the new text and the missing names in first-seen order
RECURSIVE ReplacePlaceholders(_, _, _, _, _, _)
ReplacePlaceholders(s, p, vs, debugMode, detectMissingVars, missing) ==
  IF p >= Len(s) THEN [txt |-> <<>>, missing |-> missing]
  ELSE
    LET n == PlaceholderAt(s, p)
    IN IF n = 0
       THEN LET rest == ReplacePlaceholders(s, p + 1, vs, debugMode, detectMissingVars, missing)
            IN [txt |-> <<At(s, p)>> \o rest.txt, missing |-> rest.missing]
       ELSE
         LET name == Slice(s, p + 1, p + 1 + n)
             k == JoinTokens(name)
             found == InVars(k, vs)
             seen == \E m \in 1..Len(missing) : missing[m] = k
             missing2 == IF ~found /\ detectMissingVars /\ ~seen
                         THEN Append(missing, k) ELSE missing
             here == IF found THEN VarText(k, vs)
                     ELSE IF debugMode THEN <<"{">> \o name \o <<"?", "}">>
                     ELSE Slice(s, p, p + n + 2)
             rest == ReplacePlaceholders(s, p + n + 2, vs, debugMode, detectMissingVars, missing2)
         IN [txt |-> here \o rest.txt, missing |-> rest.missing]

RECURSIVE JoinList(_)
JoinList(l) ==
  IF l = <<>> THEN ""
  ELSE IF Len(l) = 1 THEN l[1]
  ELSE l[1] \o ", " \o JoinList(Tail(l))

\* the block fillVars puts in front of the text in debug mode
MissingWarning(missing) ==
  << "{", "{",
     "Warning: Missing variables: " \o JoinList(missing)
        \o ".\nSuggestion: Make sure all needed variables are provided in the context.\nExamples: If using ",
     "{", "dob", "}", ", make sure ", "'", "dob", "'", " is in the vars object.", "\n",
     "}", "}", "\n", "\n" >>

\* steps 0 and 1 of fillVars: the text handed to renderWithDepth
Prepare(tpl, vs, opts) ==
  LET r == ReplacePlaceholders(EscapeBackticks(tpl), 0, vs, opts.debugMode,
                               opts.detectMissingVars, <<>>)
  IN IF opts.debugMode /\ r.missing # <<>> THEN MissingWarning(r.missing) \o r.txt
     ELSE r.txt

\* the keys of the object given to vm.createContext
ContextKeys(vs, hs) == COMMON \cup DOMAIN vs \cup hs \cup {"_utils"}

\* an identifier resolves when the context object or the context itself defines it
Resolves(name, vs, hs) == name \in ContextKeys(vs, hs) \cup ContextIntrinsics

-----------------------------------------------------------------------------
(* Evaluating one expression in the context *)

Outcome(kind, value, error, math) ==
  [kind |-> kind, value |-> value, error |-> error, math |-> math]

AllDigits(s) == \A n \in 1..Len(s) : s[n] \in Digits

Quotes == {"\"", "'"}

\* a string literal: a quote, text without that quote or a backslash, the same quote
IsStringLiteral(s) ==
  /\ Len(s) >= 2 /\ s[1] \in Quotes /\ s[Len(s)] = s[1]
  /\ \A n \in 2..(Len(s) - 1) : s[n] \notin {s[1], "\\", "\n"}

\* new vm.Script(`(async () => (${expr}))()`) accepts a number or one operand
Compiles(expr) ==
  LET body == Trim(expr)
  IN body # <<>> /\ (\/ AllDigits(body)
                    \/ (Len(body) = 1 /\ body[1] \in Operands)
                    \/ IsStringLiteral(body))

\* what an identifier that resolves evaluates to; later spreads win in the context
IdentValue(name, vs, hs, hm) ==
  CASE name = "_utils" -> Outcome("value", <<"{", "}">>, NoError, hm)
    [] name # "_utils" /\ name \in hs ->
         Outcome("value", <<"function " \o name>>, NoError, hm)
    [] name # "_utils" /\ name \notin hs /\ name \in DOMAIN vs ->
         (CASE vs[name].kind = "undefined" -> Outcome("undefined", <<>>, NoError, hm)
            [] vs[name].kind = "null" -> Outcome("value", <<"null">>, NoError, hm)
            [] OTHER -> Outcome("value", vs[name].text, NoError, hm))
    [] name # "_utils" /\ name \notin hs /\ name \notin DOMAIN vs /\ name \in COMMON ->
         Outcome("value", <<"{", "}">>, NoError, hm)
    [] OTHER ->
         (CASE name = "NaN" -> Outcome("value", <<"NaN">>, NoError, hm)
            [] name = "undefined" -> Outcome("undefined", <<>>, NoError, hm)
            [] OTHER -> Outcome("value", <<"function toString() { [native code] }">>,
                                NoError, hm))

\* script.runInContext(ctx) of the script compiled from src, with Math.x = hm before
RunScript(src, vs, hs, hm) ==
  LET body == Trim(src)
      tok == body[1]
  IN CASE AllDigits(body) -> Outcome("value", body, NoError, hm)
       [] IsStringLiteral(body) ->
            Outcome("value", SubSeq(body, 2, Len(body) - 1), NoError, hm)
       [] ~AllDigits(body) /\ tok \in Idents ->
            IF Resolves(tok, vs, hs) THEN IdentValue(tok, vs, hs, hm)
            ELSE Outcome("throw", <<>>, Err("ReferenceError", tok \o " is not defined"), hm)
       [] tok = "throwError()" -> Outcome("throw", <<>>, Err("Error", "boom"), hm)
       [] tok = "reject()" -> Outcome("throw", <<>>, Err("Error", "rejected"), hm)
       [] tok = "throwNull()" -> Outcome("throw", <<>>, ThrownNull, hm)
       [] tok = "throwUndefined()" -> Outcome("throw", <<>>, ThrownUndefined, hm)
       [] tok = "throwHostile()" -> Outcome("throw", <<>>, ThrownHostile, hm)
       [] tok = "spin()" -> Outcome("spin", <<>>, NoError, hm)
       [] tok = "never()" -> Outcome("never", <<>>, NoError, hm)
       [] tok = "setMath()" -> Outcome("value", <<"1">>, NoError, "1")
       [] tok = "getMath()" ->
            IF hm = "unset" THEN Outcome("undefined", <<>>, NoError, hm)
            ELSE Outcome("value", <<hm>>, NoError, hm)

Text(t) == [ok |-> TRUE, text |-> t, error |-> NoError]
Raise(e) == [ok |-> FALSE, text |-> <<>>, error |-> e]

\* evalExpr's catch block: the marker it returns, or the error that escapes it
EvalCatch(e, debugMode) ==
  LET m == ReadMessage(e)
  IN IF ~m.ok THEN Raise(m.error)
     ELSE IF debugMode
          THEN (IF formatConsoleErrorDefined THEN Text(<<DebugErrorMarker(m.message)>>)
                ELSE Raise(NotAFunction))
          ELSE Text(<<ErrorMarker(m.message)>>)

\* evalExpr after its await: the text it resolves to, or the error it rejects with
EvalSettled(o, expr, debugMode) ==
  CASE o.kind = "value" -> Text(o.value)
    [] o.kind = "undefined" -> Text(<<"{", "{">> \o expr \o <<"}", "}">>)
    [] OTHER -> EvalCatch(o.error, debugMode)

\* render's catch block
RenderCatch(e, debugMode) ==
  LET m == ReadMessage(e)
  IN IF ~m.ok THEN Raise(m.error)
     ELSE IF debugMode
          THEN (IF formatConsoleErrorDefined
                THEN Text(<<DebugRenderingErrorMarker(m.message)>>)
                ELSE Raise(NotAFunction))
          ELSE Text(<<RenderingErrorMarker(m.message)>>)

\* render's catch around the nested render
NestedCatch(e, debugMode) ==
  IF debugMode
  THEN (IF formatConsoleErrorDefined THEN Text(<<NestedErrorMarker(e.message)>>)
        ELSE Raise(NotAFunction))
  ELSE LET m == ReadMessage(e)
       IN IF m.ok THEN Text(<<NestedErrorMarker(m.message)>>) ELSE Raise(m.error)

-----------------------------------------------------------------------------
(* render: the scan *)

RECURSIVE SkipSpace(_, _)
SkipSpace(tpl, j) == IF j < Len(tpl) /\ IsSpace(At(tpl, j)) THEN SkipSpace(tpl, j + 1) ELSE j

\* the inner while loop: the index of the closing braces, or tpl.length
RECURSIVE ScanClose(_, _, _, _, _)
ScanClose(tpl, j, braces, inString, escaping) ==
  IF j >= Len(tpl) THEN j
  ELSE
    LET char == At(tpl, j)
        inString2 == IF char \in {"\"", "'"} /\ ~escaping THEN ~inString ELSE inString
        escaping2 == char = "\\" /\ ~escaping
        braces2 == IF inString2 THEN braces
                   ELSE IF char = "{" THEN braces + 1
                   ELSE IF char = "}" THEN braces - 1
                   ELSE braces
    IN IF ~inString2 /\ char = "}" /\ braces = 0 /\ At(tpl, j + 1) = "}" THEN j
       ELSE ScanClose(tpl, j + 1, braces2, inString2, escaping2)

MIN_ITERATIONS == 1000
MAX_ITERATIONS == 10000
ITERATIONS_PER_CHAR == 5

\* options.maxIterations || Math.min(10000, Math.max(1000, tpl.length * 5))
IterationLimit(tpl, maxIterationsOption) ==
  IF maxIterationsOption # 0 THEN maxIterationsOption
  ELSE Min(MAX_ITERATIONS, Max(MIN_ITERATIONS, Len(tpl) * ITERATIONS_PER_CHAR))

NewFrame(tpl, maxIterationsOption, debugMode) ==
  [tpl |-> tpl, i |-> 0, out |-> <<>>, iterations |-> 0,
   maxIterations |-> IterationLimit(tpl, maxIterationsOption),
   debugMode |-> debugMode, open |-> 0, j |-> 0, expr |-> <<>>,
   phase |-> "scan", ret |-> <<>>, err |-> NoError]

\* what render returns once its loop is over
AfterLoop(f) ==
  [f EXCEPT !.phase = "returned",
            !.ret = IF f.iterations >= f.maxIterations
                    THEN <<IterationMarker(f.maxIterations, Len(f.tpl), f.debugMode)>>
                    ELSE f.out]

\* one pass of the while loop, up to the await it reaches or to the end of the loop
LoopHead(f) ==
  IF ~(f.i < Len(f.tpl) /\ f.iterations < f.maxIterations) THEN AfterLoop(f)
  ELSE
    LET g == [f EXCEPT !.iterations = f.iterations + 1]
        open == IndexOfOpen(f.tpl, f.i)
        j == ScanClose(f.tpl, SkipSpace(f.tpl, open + 2), 0, FALSE, FALSE)
        expr == Trim(Slice(f.tpl, open + 2, j))
        before == f.out \o Slice(f.tpl, f.i, open)
    IN IF open = -1
       THEN AfterLoop([g EXCEPT !.out = f.out \o Slice(f.tpl, f.i, Len(f.tpl))])
       ELSE IF j >= Len(f.tpl)
       THEN AfterLoop([g EXCEPT !.out = before \o <<UnclosedMarker(open, f.debugMode)>>,
                                !.open = open, !.j = j])
       ELSE [g EXCEPT !.out = before, !.open = open, !.j = j, !.expr = expr,
                      !.phase = IF IncludesOpen(expr) THEN "nested" ELSE "evalready"]

-----------------------------------------------------------------------------
(* The inputs of the model *)

DefaultMaxRenderDepth == 10

RECURSIVE Nest(_, _)
\* x inside d pairs of {{ }}
Nest(x, d) == IF d = 0 THEN <<x>> ELSE <<"{", "{">> \o Nest(x, d - 1) \o <<"}", "}">>

BlockAtoms == Operands \cup {"?"}

\* templates of literal text only
LiteralTemplates ==
  {<<>>, <<"a", "\n", "a">>, <<"}", "}", "a", "{">>, <<"{", "a", " ", "}">>,
   <<"1", "\"", "{", "'", "}">>, <<"a", Backtick, "a">>}

\* one block holding a string literal with braces or the other quote in it:
\* {{"}}"}}, {{"{{"}}, {{"'}}"}} and {{'{'}}
QuotedTemplates ==
  {<<"{", "{">> \o lit \o <<"}", "}">> :
     lit \in {<<"\"", "}", "}", "\"">>, <<"\"", "{", "{", "\"">>,
              <<"\"", "'", "}", "}", "\"">>, <<"'", "{", "'">>}}

Templates ==
  {Nest(x, d) : x \in BlockAtoms, d \in 1..MaxNest}
  \cup {<<"a">> \o Nest(x, 1) \o <<" ">> \o Nest(y, 1) \o <<"a">> :
          x \in BlockAtoms, y \in {"1", "throwError()"}}
  \cup {<<"a", " ", "a">>,
        <<"{", "dob", "}", " ", "{", "a", "}">>,
        <<"{", "{", " ", "1", "2", " ", "}", "}">>,
        <<"a", "{", "{", "1">>,
        <<"{", "{", "{", "{", "1", "}", "}", "a", "}", "}">>,
        <<"a", Backtick, "{", "{", "}", "}">>,
        <<"{", "{", "}", "}", "{", "{", "}", "}", "a">>}
  \cup LiteralTemplates
  \cup QuotedTemplates
  \cup {<<"{", k, "}">> : k \in {"dob", "age", "toString"}}

NoVars == [k \in {} |-> [kind |-> "string", text |-> <<>>]]
DobVars == [k \in {"dob"} |-> [kind |-> "string", text |-> <<"1990">>]]

\* vars = { dob: v } for a scalar v: a number, null, a string with braces in it
ScalarValues ==
  {[kind |-> "number", text |-> <<"1", "2">>],
   [kind |-> "null", text |-> <<>>],
   [kind |-> "string", text |-> <<"{", "{", "1", "}", "}">>],
   [kind |-> "string", text |-> <<"{", "a", "}">>]}
ScalarVars == {[k \in {"dob"} |-> v] : v \in ScalarValues}

Contexts ==
  {[vars |-> NoVars, helpers |-> {}], [vars |-> DobVars, helpers |-> {"age"}]}
  \cup {[vars |-> vs, helpers |-> {}] : vs \in ScalarVars}

OptionSets ==
  [maxRenderDepth : {0, 1, 2, DefaultMaxRenderDepth},
   clearCache : {FALSE},
   debugMode : BOOLEAN,
   detectMissingVars : {TRUE},
   maxIterations : {0, 1}]

DefaultOptions(o) ==
  /\ o.maxRenderDepth = DefaultMaxRenderDepth
  /\ ~o.clearCache /\ ~o.debugMode /\ o.detectMissingVars /\ o.maxIterations = 0

\* orphans: the expressions withTimeout stopped waiting for; nothing cancels
\* their promises, which stay pending behind the render's back
NoEval == [active |-> FALSE, expr |-> <<>>, script |-> <<>>,
           outcome |-> Outcome("none", <<>>, NoError, "unset"), elapsed |-> 0,
           orphans |-> <<>>]

NoLoad == [called |-> FALSE]
NoCompile == [called |-> FALSE]
NoAssembly == [phase |-> "idle"]
NoTimeoutCall == [phase |-> "idle"]
NoClassification == [called |-> FALSE]
NoPlainRun == [ran |-> FALSE]
NoSandbox == [phase |-> "idle"]
NoHelper == [status |-> "idle"]
NoRenders == <<>>
NoCounters == [phase |-> "idle"]
NoSecureCall == [phase |-> "idle"]

TailIdle ==
  /\ counters = NoCounters
  /\ sf = NoSecureCall

MoreIdle ==
  /\ classified = NoClassification
  /\ plain = NoPlainRun
  /\ sandbox = NoSandbox
  /\ registered = NoHelper
  /\ renders = NoRenders
  /\ TailIdle

LaterIdle ==
  /\ MoreIdle
  /\ everCached = {}
  /\ assembled = NoAssembly
  /\ wt = NoTimeoutCall

OthersIdle ==
  /\ lruRet = Undefined
  /\ helperCache = <<>>
  /\ loaded = NoLoad
  /\ compiled = NoCompile
  /\ LaterIdle

-----------------------------------------------------------------------------
(* One fillVars call *)

Init ==
  /\ template \in Templates
  /\ \E c \in Contexts : vars = c.vars /\ helpers = c.helpers
  /\ options \in OptionSets
  /\ pc = "call"
  /\ result = <<>>
  /\ depth = 0
  /\ stack = <<>>
  /\ ev = NoEval
  /\ expressionCache = <<>>
  /\ hostMath = "unset"
  /\ evalLog = <<>>
  /\ OthersIdle

Top == stack[Len(stack)]

SetTop(st, f) == [st EXCEPT ![Len(st)] = f]

\* renderWithDepth's guard
DepthExceeded(d, maxRenderDepth) == d >= maxRenderDepth

\* fillVars up to the call of render
Call ==
  /\ pc = "call"
  /\ expressionCache' = IF options.clearCache THEN LRUClear(expressionCache)
                        ELSE expressionCache
  /\ LET txt == Prepare(template, vars, options)
     IN IF DepthExceeded(depth, options.maxRenderDepth)
        THEN /\ result' = <<DepthMarker(options.maxRenderDepth, options.debugMode)>>
             /\ pc' = "done"
             /\ UNCHANGED <<depth, stack>>
        ELSE /\ depth' = depth + 1
             /\ stack' = <<NewFrame(txt, options.maxIterations, options.debugMode)>>
             /\ pc' = "render"
             /\ UNCHANGED result
  /\ UNCHANGED <<template, vars, helpers, options, ev, hostMath, evalLog, otherVars>>

\* render runs one pass of its loop; a nested block starts a render of its own
Scan ==
  /\ pc = "render" /\ stack # <<>> /\ Top.phase = "scan"
  /\ LET f == LoopHead(Top)
     IN stack' = IF f.phase = "nested"
                 THEN Append(SetTop(stack, f), NewFrame(f.expr, 0, f.debugMode))
                 ELSE SetTop(stack, f)
  /\ UNCHANGED <<template, vars, helpers, options, pc, result, depth, ev,
                 expressionCache, hostMath, evalLog, otherVars>>

\* evalExpr up to its await: compile or fetch the script, run it, arm the timer
EvalStart ==
  /\ pc = "render" /\ stack # <<>> /\ Top.phase = "evalready"
  /\ LET expr == Top.expr
         hit == LRUHas(expressionCache, expr)
         stored == IF hit THEN expressionCache
                   ELSE LRUSet(expressionCache, expr, expr, CacheMaxSize)
         script == LRUGetItem(stored, expr)
     IN /\ evalLog' = Append(evalLog, expr)
        /\ lruRet' = IF hit THEN "hit"
                     ELSE IF ~Compiles(expr) THEN "rejected"
                     ELSE IF expr \in everCached THEN "recompiled"
                     ELSE "compiled"
        /\ everCached' = IF ~hit /\ Compiles(expr) THEN everCached \cup {expr}
                         ELSE everCached
        /\ IF ~hit /\ ~Compiles(expr)
           THEN /\ ev' = [active |-> TRUE, expr |-> expr, script |-> <<>>, elapsed |-> 0,
                          orphans |-> ev.orphans,
                          outcome |-> Outcome("throw", <<>>,
                                              Err("SyntaxError", "Unexpected token"),
                                              hostMath)]
                /\ UNCHANGED <<expressionCache, hostMath>>
           ELSE LET o == RunScript(script, vars, helpers, hostMath)
                IN /\ expressionCache' = LRUGet(stored, expr)
                   /\ ev' = [active |-> TRUE, expr |-> expr, script |-> script,
                             elapsed |-> 0, outcome |-> o, orphans |-> ev.orphans]
                   /\ hostMath' = o.math
  /\ stack' = SetTop(stack, [Top EXCEPT !.phase = "awaiting"])
  /\ UNCHANGED <<template, vars, helpers, options, pc, result, depth, helperCache,
                 loaded, compiled, assembled, wt, moreVars>>

\* the rest of evalExpr and of the loop pass, once the await is over
\* evalExpr has returned and the scan position stays where it was
ContinueInPlace(o) ==
  LET f == Top
      r == EvalSettled(o, f.expr, f.debugMode)
      c == RenderCatch(r.error, f.debugMode)
  IN IF r.ok
     THEN [f EXCEPT !.out = f.out \o r.text, !.phase = "scan"]
     ELSE IF c.ok THEN [f EXCEPT !.phase = "returned", !.ret = c.text]
     ELSE [f EXCEPT !.phase = "threw", !.err = c.error]

Continue(o) ==
  LET f == Top
      r == EvalSettled(o, f.expr, f.debugMode)
      c == RenderCatch(r.error, f.debugMode)
  IN IF r.ok
     THEN [f EXCEPT !.out = f.out \o r.text, !.i = f.j + 2, !.phase = "scan"]
     ELSE IF c.ok THEN [f EXCEPT !.phase = "returned", !.ret = c.text]
     ELSE [f EXCEPT !.phase = "threw", !.err = c.error]

\* the script's promise has settled and evalExpr resumes
Resume ==
  /\ ev.active /\ ev.outcome.kind \in {"value", "undefined", "throw"}
  /\ stack' = SetTop(stack, Continue(ev.outcome))
  /\ ev' = [NoEval EXCEPT !.orphans = ev.orphans]
  /\ UNCHANGED <<template, vars, helpers, options, pc, result, depth,
                 expressionCache, hostMath, evalLog, otherVars>>

\* time passes while the evaluation is neither settled nor timed out; the timer
\* of a pending promise fires as soon as it is due
Tick ==
  /\ ev.active /\ ev.outcome.kind \in {"spin", "never"}
  /\ ev.elapsed <= TimeoutTicks
  /\ ev.outcome.kind = "never" => ev.elapsed < TimeoutTicks
  /\ ev' = [ev EXCEPT !.elapsed = ev.elapsed + 1]
  /\ UNCHANGED <<template, vars, helpers, options, pc, result, depth, stack,
                 expressionCache, hostMath, evalLog, otherVars>>

\* withTimeout's timer: it can run only when the event loop is free
TimerFire ==
  /\ ev.active /\ ev.outcome.kind = "never"
  /\ ev.elapsed >= TimeoutTicks
  /\ stack' = SetTop(stack, Continue(Outcome("throw", <<>>, TimeoutError(EVAL_TIMEOUT_MS),
                                             ev.outcome.math)))
  /\ ev' = [NoEval EXCEPT !.orphans = Append(ev.orphans, ev.expr)]
  /\ UNCHANGED <<template, vars, helpers, options, pc, result, depth,
                 expressionCache, hostMath, evalLog, otherVars>>

\* a nested render is over: its text is the expression of the enclosing block
NestedReturn ==
  /\ pc = "render" /\ Len(stack) >= 2 /\ Top.phase \in {"returned", "threw"}
  /\ LET child == Top
         parent == stack[Len(stack) - 1]
         n == NestedCatch(child.err, parent.debugMode)
         c == RenderCatch(n.error, parent.debugMode)
         next == IF child.phase = "returned"
                 THEN [parent EXCEPT !.expr = child.ret, !.phase = "evalready"]
                 ELSE IF n.ok
                 THEN [parent EXCEPT !.out = parent.out \o n.text, !.i = parent.j + 2,
                                     !.phase = "scan"]
                 ELSE IF c.ok THEN [parent EXCEPT !.phase = "returned", !.ret = c.text]
                 ELSE [parent EXCEPT !.phase = "threw", !.err = c.error]
     IN stack' = Append(SubSeq(stack, 1, Len(stack) - 2), next)
  /\ UNCHANGED <<template, vars, helpers, options, pc, result, depth, ev,
                 expressionCache, hostMath, evalLog, otherVars>>

\* the outermost render is over: renderWithDepth returns and fillVars settles
Finish ==
  /\ pc = "render" /\ Len(stack) = 1 /\ Top.phase \in {"returned", "threw"}
  /\ IF Top.phase = "returned"
     THEN /\ depth' = depth - 1
          /\ result' = Top.ret
          /\ pc' = "done"
     ELSE /\ pc' = "rejected"
          /\ result' = <<>>
          /\ UNCHANGED depth
  /\ stack' = <<>>
  /\ UNCHANGED <<template, vars, helpers, options, ev, expressionCache, hostMath,
                 evalLog, otherVars>>

Next == Call \/ Scan \/ EvalStart \/ Resume \/ Tick \/ TimerFire \/ NestedReturn \/ Finish

Spec == Init /\ [][Next]_allVars

-----------------------------------------------------------------------------
(* Claims about one fillVars call *)

Range(s) == {s[n] : n \in 1..Len(s)}

\* C1: the promise fillVars returns resolves to a string and never rejects,
\* whatever an expression block throws and whatever the options are.
C1_NeverRejects == pc # "rejected"

Messages ==
  {"boom", "rejected", "Unexpected token",
   "Cannot read properties of null (reading 'message')",
   "Cannot read properties of undefined (reading 'message')",
   "formatConsoleError is not a function",
   TimeoutError(EVAL_TIMEOUT_MS).message}
  \cup {x \o " is not defined" : x \in Idents}

ErrorMarkers == {ErrorMarker(m) : m \in Messages}

\* the evaluation in flight fails: the script throws, rejects, does not compile,
\* or never settles and is timed out
Failing == ev.active /\ ev.outcome.kind \in {"throw", "never"}

\* C2: with default options a failing block is recovered at its own boundary:
\* when evalExpr resumes, the scan that awaited it has its output so far, then
\* one {{Error: <message>}} marker, and goes on scanning behind the block.
C2_FailureRecoveredInline ==
  [][(DefaultOptions(options) /\ Failing /\ ~ev'.active)
       => /\ Len(stack') = Len(stack)
          /\ stack'[Len(stack)].phase = "scan"
          /\ stack'[Len(stack)].i = Top.j + 2
          /\ \E m \in ErrorMarkers : stack'[Len(stack)].out = Top.out \o <<m>>]_allVars

\* C3: an evaluation that does not terminate is abandoned no later than the
\* timeout: none is still in flight after the timeout has elapsed.
C3_AbandonedByTimeout == ev.active => ev.elapsed <= TimeoutTicks

\* C4: no expression changes what a later or concurrent call observes: the
\* objects the safe globals refer to stay as they were (Math gains no property).
C4_SafeGlobalsImmutable == hostMath = "unset"

\* C5: the only top-level names that resolve during an evaluation are the safe
\* globals, the keys of vars and the keys of helpers; any other identifier
\* fails to resolve.
C5_OnlyListedNamesResolve ==
  (ev.active /\ Len(ev.script) = 1 /\ ev.script[1] \in Idents)
    => (ev.outcome.kind = "throw" <=> ev.script[1] \notin COMMON \cup DOMAIN vars \cup helpers)

\* C8: a template nested more than maxRenderDepth levels deep yields the
\* nesting-depth marker instead of evaluating the levels beyond the limit.
C8_DepthMarkerBeyondLimit ==
  \A x \in BlockAtoms, d \in 1..MaxNest :
    (template = Nest(x, d) /\ d > options.maxRenderDepth /\ pc = "done")
      => /\ Len(evalLog) <= options.maxRenderDepth
         /\ \/ DepthMarker(options.maxRenderDepth, options.debugMode) \in Range(result)
            \/ \E n \in 1..Len(evalLog) :
                 DepthMarker(options.maxRenderDepth, options.debugMode) \in Range(evalLog[n])

\* no {{ and no {name} placeholder anywhere in t
IsLiteral(t) ==
  /\ ~IncludesOpen(t)
  /\ \A p \in 0..(Len(t) - 1) : PlaceholderAt(t, p) = 0

\* C16: for a template of literal text only, fillVars(t, {}, {}) returns
\* exactly t, character for character.
C16_LiteralTextUnchanged ==
  (IsLiteral(template) /\ vars = NoVars /\ helpers = {} /\ DefaultOptions(options)
     /\ pc \in {"done", "rejected"})
    => (pc = "done" /\ result = template)

\* String(v) for a scalar v
StringOf(v) == IF v.kind = "null" THEN <<"null">> ELSE v.text

\* C17: for a key k of vars with a scalar value v, rendering the template {k}
\* returns exactly String(v).
C17_PlaceholderRendersValue ==
  \A k \in DOMAIN vars :
    (template = <<"{", k, "}">> /\ DefaultOptions(options) /\ pc \in {"done", "rejected"})
      => (pc = "done" /\ result = StringOf(vars[k]))

\* sub occurs in s as a run of consecutive tokens
Contains(s, sub) ==
  \E p \in 0..(Len(s) - Len(sub)) : Slice(s, p, p + Len(sub)) = sub

\* C18: a placeholder {k} whose name was not supplied in vars is left unchanged
\* with default options and appears as {k?} in debug mode; it is never
\* replaced by any other text.
C18_MissingPlaceholderKept ==
  \A k \in WordTokens \ DOMAIN vars :
    (template = <<"{", k, "}">> /\ pc \in {"done", "rejected"}
       /\ options.maxRenderDepth = DefaultMaxRenderDepth /\ options.maxIterations = 0)
      => /\ pc = "done"
         /\ ~options.debugMode => result = template
         /\ options.debugMode => Contains(result, <<"{", k, "?", "}">>)

\* the next pass of frame f's loop meets a {{ that has no closing }}
UnclosedAhead(f) ==
  /\ f.phase = "scan" /\ f.i < Len(f.tpl) /\ f.iterations < f.maxIterations
  /\ IndexOfOpen(f.tpl, f.i) # -1
  /\ ScanClose(f.tpl, SkipSpace(f.tpl, IndexOfOpen(f.tpl, f.i) + 2), 0, FALSE, FALSE)
       >= Len(f.tpl)

\* C19: when a {{ has no matching }} before the end of the text, the render
\* returns its output so far followed by one Unclosed-expression marker naming
\* the index of that {{; the scan stops there.
C19_UnclosedStopsScan ==
  [][(pc = "render" /\ stack # <<>> /\ UnclosedAhead(Top) /\ stack' # stack)
       => /\ Len(stack') = Len(stack)
          /\ stack'[Len(stack)].phase = "returned"
          /\ stack'[Len(stack)].ret =
               Top.out \o Slice(Top.tpl, Top.i, IndexOfOpen(Top.tpl, Top.i))
                 \o <<UnclosedMarker(IndexOfOpen(Top.tpl, Top.i), Top.debugMode)>>]_allVars

\* the quote state after the character c: "" outside every string literal
QuoteAfter(quote, c, escaping) ==
  IF escaping THEN quote
  ELSE IF quote = "" THEN (IF c \in Quotes THEN c ELSE "")
  ELSE IF c = quote THEN "" ELSE quote

\* the index of the first }} at brace depth zero outside every string literal,
\* from position j on; the length of the text when there is none
RECURSIVE BlockEnd(_, _, _, _, _)
BlockEnd(tpl, j, braces, quote, escaping) ==
  IF j >= Len(tpl) THEN j
  ELSE
    LET c == At(tpl, j)
        q == QuoteAfter(quote, c, escaping)
        outside == quote = "" /\ q = ""
    IN IF outside /\ c = "}" /\ braces = 0 /\ At(tpl, j + 1) = "}" THEN j
       ELSE BlockEnd(tpl, j + 1,
                     IF outside /\ c = "{" THEN braces + 1
                     ELSE IF outside /\ c = "}" THEN braces - 1 ELSE braces,
                     q, c = "\\" /\ ~escaping)

\* a {{ occurs in s outside every string literal
RECURSIVE OpensOutsideStrings(_, _, _, _)
OpensOutsideStrings(s, p, quote, escaping) ==
  IF p >= Len(s) THEN FALSE
  ELSE IF quote = "" /\ At(s, p) = "{" /\ At(s, p + 1) = "{" THEN TRUE
  ELSE OpensOutsideStrings(s, p + 1, QuoteAfter(quote, At(s, p), escaping),
                           At(s, p) = "\\" /\ ~escaping)

\* the next pass of frame f's loop finds a {{
BlockAhead(f) ==
  /\ f.phase = "scan" /\ f.i < Len(f.tpl) /\ f.iterations < f.maxIterations
  /\ IndexOfOpen(f.tpl, f.i) # -1

\* C20: a block ends at the first }} at brace depth zero outside every string
\* literal: what a quoted string contains never moves the end of the block,
\* never makes the block unclosed and never makes it a nested block.
C20_BlockEndIgnoresStrings ==
  [][(pc = "render" /\ stack # <<>> /\ BlockAhead(Top) /\ stack' # stack)
       => LET open == IndexOfOpen(Top.tpl, Top.i)
              end == BlockEnd(Top.tpl, SkipSpace(Top.tpl, open + 2), 0, "", FALSE)
              g == stack'[Len(stack)]
          IN end < Len(Top.tpl)
               => /\ g.phase \in {"evalready", "nested"}
                  /\ g.j = end
                  /\ g.phase = "nested" => OpensOutsideStrings(g.expr, 0, "", FALSE)]_allVars

\* the loop of frame f stops on the iteration limit with text still to scan
LimitReached(f) ==
  f.phase = "scan" /\ f.i < Len(f.tpl) /\ f.iterations >= f.maxIterations

\* C21: a scan stopped by the iteration limit returns the output accumulated
\* so far followed by the iteration-limit error message.
C21_LimitKeepsPartialOutput ==
  [][(pc = "render" /\ stack # <<>> /\ LimitReached(Top) /\ stack' # stack)
       => LET g == stack'[Len(stack)]
          IN /\ g.phase = "returned"
             /\ g.ret = Top.out
                   \o <<IterationMarker(Top.maxIterations, Len(Top.tpl), Top.debugMode)>>]_allVars

\* C22: no scan of a render, top-level or nested, makes more loop iterations
\* than the caller's maxIterations when one is configured, and otherwise than
\* 5 times the length of the scanned text clamped to 1000..10000.
C22_IterationsWithinLimit ==
  \A n \in 1..Len(stack) :
     stack[n].iterations <= IterationLimit(stack[n].tpl, options.maxIterations)

\* C34: render returns the iteration-limit error only when its loop was
\* stopped by the limit with text still to scan; a scan that reaches the end
\* of its text, be it on the maxIterations-th iteration, returns its output.
C34_LimitErrorOnlyForUnfinishedScan ==
  [][(/\ pc = "render" /\ stack # <<>> /\ Top.phase = "scan"
      /\ Len(stack') = Len(stack)
      /\ stack'[Len(stack)].phase = "returned"
      /\ stack'[Len(stack)].ret =
           <<IterationMarker(Top.maxIterations, Len(Top.tpl), Top.debugMode)>>)
       => LimitReached(Top)]_allVars

\* C35: every pass of the scan loop either ends the scan or moves the scan
\* position forward past one whole block, which is at least four places
\* long; a scan of a text of length n makes at most n/4 + 1 passes.
C35_ScanAdvancesPastEachBlock ==
  \A n \in 1..Len(stack) :
    LET f == stack[n]
    IN /\ f.iterations <= (Len(f.tpl) \div 4) + 1
       /\ f.phase = "scan" => /\ 4 * f.iterations <= f.i
                              /\ f.i <= Len(f.tpl)
       /\ (f.phase = "scan" /\ f.iterations > 0) =>
            /\ f.i = f.j + 2 /\ f.j >= f.open + 2
            /\ At(f.tpl, f.open) = "{" /\ At(f.tpl, f.open + 1) = "{"
            /\ At(f.tpl, f.j) = "}" /\ At(f.tpl, f.j + 1) = "}"

\* a scan has ended on the last pass the bound allows, after two blocks
C35_Witness ==
  /\ stack # <<>> /\ Top.phase = "returned"
  /\ Top.iterations = (Len(Top.tpl) \div 4) + 1
  /\ Top.iterations >= 3
  /\ Top.ret = Top.out

\* the template a block-atom x, then a block-atom y, between two characters
TwoBlocks(x, y) == <<"a">> \o Nest(x, 1) \o <<" ">> \o Nest(y, 1) \o <<"a">>

\* C14: within one render the blocks are evaluated one at a time, left to
\* right, a nested block before the block around it, and no two blocks are in
\* flight together.
C14_OneBlockAtATime ==
  /\ \A x \in BlockAtoms, y \in {"1", "throwError()"} :
       template = TwoBlocks(x, y)
         => \/ evalLog = <<>>
            \/ evalLog = << <<x>> >>
            \/ evalLog = << <<x>>, <<y>> >>
  /\ \A x \in BlockAtoms, d \in 1..MaxNest :
       (template = Nest(x, d) /\ evalLog # <<>>) => evalLog[1] = <<x>>
  /\ \A n \in 1..Len(stack) :
       stack[n].phase \in {"evalready", "awaiting"} => n = Len(stack)
  /\ ev.active => (stack # <<>> /\ Top.phase = "awaiting" /\ ev.orphans = <<>>)

-----------------------------------------------------------------------------
(* One fillVars call after another: the expression cache outlives each call *)

\* pure expressions: their value depends on the context only
PureAtoms == {"1", "2", "dob", "a"}

RenderTemplates == {Nest(x, 1) : x \in PureAtoms}

RenderOptions ==
  [maxRenderDepth : {DefaultMaxRenderDepth}, clearCache : BOOLEAN, debugMode : {FALSE},
   detectMissingVars : {TRUE}, maxIterations : {0}]

RendersInit ==
  /\ template \in RenderTemplates
  /\ \E c \in Contexts : vars = c.vars /\ helpers = c.helpers
  /\ options \in RenderOptions
  /\ pc = "call"
  /\ result = <<>>
  /\ depth = 0
  /\ stack = <<>>
  /\ ev = NoEval
  /\ expressionCache = <<>>
  /\ hostMath = "unset"
  /\ evalLog = <<>>
  /\ OthersIdle

\* the previous call has settled and fillVars is called again; the module-level
\* expressionCache is the one the previous calls left
NextCall ==
  /\ pc \in {"done", "rejected"}
  /\ template' \in RenderTemplates
  /\ \E c \in Contexts : vars' = c.vars /\ helpers' = c.helpers
  /\ options' \in RenderOptions
  /\ pc' = "call"
  /\ result' = <<>>
  /\ depth' = 0
  /\ stack' = <<>>
  /\ ev' = NoEval
  /\ evalLog' = <<>>
  /\ UNCHANGED <<expressionCache, hostMath, otherVars>>

RendersNext == Call \/ Scan \/ EvalStart \/ Resume \/ Finish \/ NextCall

SpecRenders == RendersInit /\ [][RendersNext]_allVars

\* what a script freshly compiled from expr gives in the current context
FreshOutcome(expr) ==
  IF Compiles(expr) THEN RunScript(expr, vars, helpers, hostMath)
  ELSE Outcome("throw", <<>>, Err("SyntaxError", "Unexpected token"), hostMath)

\* C11: for a pure expression e, rendering {{e}} gives what a freshly compiled
\* script gives in the same context, whether the script is fresh, served from
\* the cache, or recompiled after an eviction or a clearCache; and the cache
\* never holds, under e, a script compiled from another source text.
C11_CacheKeepsResults ==
  /\ \A n \in 1..Len(expressionCache) : expressionCache[n].value = expressionCache[n].key
  /\ ev.active => ev.outcome = FreshOutcome(ev.expr)
  /\ \A x \in PureAtoms :
       (pc = "done" /\ template = Nest(x, 1))
         => result = EvalSettled(FreshOutcome(<<x>>), <<x>>, options.debugMode).text

\* {{dob}} has been rendered from a cached script, in a full cache that has
\* already dropped entries
C11_Witness ==
  /\ pc = "done" /\ template = Nest("dob", 1) /\ result = <<"1990">>
  /\ lruRet = "hit"
  /\ Len(expressionCache) = CacheMaxSize
  /\ Cardinality(everCached) > CacheMaxSize

-----------------------------------------------------------------------------
(* The expression cache on its own: any sequence of its operations *)

LRUKeys == {<<"1">>, <<"2">>, <<"a">>, <<"1", "2">>}
LRUValues == {<<"1">>, <<"2">>}

RenderIdle ==
  /\ template = <<>>
  /\ vars = NoVars
  /\ helpers = {}
  /\ options = [maxRenderDepth |-> DefaultMaxRenderDepth, clearCache |-> FALSE,
                debugMode |-> FALSE, detectMissingVars |-> TRUE, maxIterations |-> 0]
  /\ pc = "idle"
  /\ result = <<>>
  /\ depth = 0
  /\ stack = <<>>
  /\ ev = NoEval
  /\ hostMath = "unset"
  /\ evalLog = <<>>

RenderRest == <<template, vars, helpers, options, pc, result, depth, stack, ev,
                hostMath, evalLog>>

LRUInit ==
  /\ RenderIdle
  /\ expressionCache = <<>>
  /\ lruRet = Undefined
  /\ helperCache = <<>>
  /\ loaded = NoLoad
  /\ compiled = NoCompile
  /\ LaterIdle

has(key) ==
  /\ lruRet' = IF LRUHas(expressionCache, key) THEN "true" ELSE "false"
  /\ UNCHANGED <<expressionCache, RenderRest, helperCache, loaded, compiled, laterVars>>

get(key) ==
  /\ lruRet' = IF LRUHas(expressionCache, key) THEN "item" ELSE Undefined
  /\ expressionCache' = LRUGet(expressionCache, key)
  /\ UNCHANGED <<RenderRest, helperCache, loaded, compiled, laterVars>>

set(key, value) ==
  /\ lruRet' = IF Len(expressionCache) >= CacheMaxSize /\ expressionCache # <<>>
               THEN "evicted" ELSE "stored"
  /\ expressionCache' = LRUSet(expressionCache, key, value, CacheMaxSize)
  /\ UNCHANGED <<RenderRest, helperCache, loaded, compiled, laterVars>>

clear ==
  /\ lruRet' = "cleared"
  /\ expressionCache' = LRUClear(expressionCache)
  /\ UNCHANGED <<RenderRest, helperCache, loaded, compiled, laterVars>>

\* the cache operations of one evalExpr call: has, then set when absent, then get
evalExprLookup(expr) ==
  /\ lruRet' = IF LRUHas(expressionCache, expr) THEN "hit" ELSE "compiled"
  /\ expressionCache' =
       LRUGet(IF LRUHas(expressionCache, expr) THEN expressionCache
              ELSE LRUSet(expressionCache, expr, expr, CacheMaxSize), expr)
  /\ UNCHANGED <<RenderRest, helperCache, loaded, compiled, laterVars>>

LRUNext ==
  \/ \E k \in LRUKeys : has(k)
  \/ \E k \in LRUKeys : get(k)
  \/ \E k \in LRUKeys, v \in LRUValues : set(k, v)
  \/ clear
  \/ \E k \in LRUKeys : evalExprLookup(k)

SpecLRU == LRUInit /\ [][LRUNext]_allVars

\* C9: after any sequence of has, get, set and clear operations, and of
\* expression evaluations, the cache holds at most its capacity of entries.
C9_CacheWithinCapacity == Len(expressionCache) <= CacheMaxSize

\* a full cache has just taken a new entry and dropped its oldest one
C9_Witness == lruRet = "evicted" /\ Len(expressionCache) = CacheMaxSize

-----------------------------------------------------------------------------
(* loadHelperModule *)

MAX_SIZE == 20000

\* the keys of SECURITY_PATTERNS, in the order of the scan
LoaderPatterns == {"DANGEROUS", "FILESYSTEM", "NETWORK", "IMPORTS", "PROCESS", "OBFUSCATION"}

\* a module source: what the loader can find out about it.  name stands for the
\* content (and so for its sha256), patterns for the SECURITY_PATTERNS that match,
\* exec for what running it does ("harvestThrows": it runs, and reading its
\* exports afterwards throws), functions for the bag the harvest collects
Module(name, length, patterns, exec, functions) ==
  [name |-> name, isString |-> TRUE, length |-> length, patterns |-> patterns,
   exec |-> exec, functions |-> functions]

ModuleSources ==
  { Module("add", 10, {}, "ok", {"add"}),
    Module("addSubtract", 10, {}, "ok", {"add", "subtract"}),
    Module("medium", 100, {}, "ok", {"g"}),
    Module("tooBig", 20001, {}, "ok", {"f"}),
    Module("dangerous", 10, {"DANGEROUS", "PROCESS"}, "ok", {"dangerous"}),
    Module("addAndLeak", 10, {"DANGEROUS", "PROCESS"}, "ok", {"add", "leak"}),
    Module("usesRequire", 10, {"IMPORTS"}, "ok", {"f"}),
    Module("requiresFs", 10, {"FILESYSTEM", "IMPORTS"}, "ok", {"readFile"}),
    Module("escaped", 10, {"OBFUSCATION"}, "ok", {"f"}),
    Module("throwsAtTheEnd", 10, {}, "throws", {"f"}),
    Module("nearTheTimeout", 10, {}, "flaky", {"f"}),
    Module("exportThrows", 10, {}, "harvestThrows", {"f"}),
    [name |-> "notAString", isString |-> FALSE, length |-> 0, patterns |-> {},
     exec |-> "ok", functions |-> {}] }

LoadOptions ==
  [maxSize : {MAX_SIZE, 50}, allowImports : BOOLEAN, disableCache : BOOLEAN]

ScanOnlyDangerous(allowImports) == {"DANGEROUS"}

ScanNothing(allowImports) == {}

\* the patterns the security scan tests: IMPORTS is skipped when allowImports is set
ScannedPatterns(allowImports) ==
  IF allowImports THEN LoaderPatterns \ {"IMPORTS"} ELSE LoaderPatterns

CacheKey(m) == "helper_" \o m.name

\* loadHelperModule(code, options); runs tells whether this run of the module ends
\* normally (only a module near the timeout can go either way)
LoadHelperModule(m, o, runs) ==
  LET call == [called |-> TRUE, source |-> m, options |-> o, executed |-> FALSE,
               execFailed |-> FALSE, fromCache |-> FALSE, bag |-> {}, raised |-> FALSE]
      key == CacheKey(m)
  IN IF ~m.isString THEN [load |-> call, cache |-> helperCache]
     ELSE IF m.length > o.maxSize THEN [load |-> call, cache |-> helperCache]
     ELSE IF m.patterns \cap ScannedPatterns(o.allowImports) # {}
     THEN [load |-> call, cache |-> helperCache]
     ELSE IF ~o.disableCache /\ key \in DOMAIN helperCache
     THEN [load |-> [call EXCEPT !.fromCache = TRUE, !.bag = helperCache[key]],
           cache |-> helperCache]
     ELSE IF ~runs
     THEN [load |-> [call EXCEPT !.executed = TRUE, !.execFailed = TRUE],
           cache |-> helperCache]
     ELSE IF m.exec = "harvestThrows"
     THEN [load |-> [call EXCEPT !.executed = TRUE, !.raised = TRUE],
           cache |-> helperCache]
     ELSE [load |-> [call EXCEPT !.executed = TRUE, !.bag = m.functions],
           cache |-> IF o.disableCache THEN helperCache
                     ELSE [k \in DOMAIN helperCache \cup {key} |->
                             IF k = key THEN m.functions ELSE helperCache[k]]]

Load(m, o, runs) ==
  /\ m.exec \in {"ok", "harvestThrows"} => runs
  /\ m.exec = "throws" => ~runs
  /\ LET r == LoadHelperModule(m, o, runs)
     IN /\ loaded' = r.load
        /\ helperCache' = r.cache
  /\ UNCHANGED <<renderVars, lruRet, compiled, laterVars>>

LoaderInit ==
  /\ RenderIdle
  /\ expressionCache = <<>>
  /\ OthersIdle

LoaderNext == \E m \in ModuleSources, o \in LoadOptions, runs \in BOOLEAN : Load(m, o, runs)

SpecLoader == LoaderInit /\ [][LoaderNext]_allVars

\* C6 as stated: a source that matches any security pattern, exceeds the size
\* limit or fails while executing yields an empty table.
C6_RejectedSourceLoadsNothing ==
  loaded.called =>
    ((\/ loaded.source.patterns # {}
      \/ loaded.source.length > loaded.options.maxSize
      \/ loaded.execFailed) => loaded.bag = {})

\* C6 as amended: the same, with the IMPORTS pattern counting only when
\* allowImports is not set.
C6_ScannedSourceLoadsNothing ==
  loaded.called =>
    ((\/ loaded.source.patterns \ (IF loaded.options.allowImports THEN {"IMPORTS"} ELSE {}) # {}
      \/ loaded.source.length > loaded.options.maxSize
      \/ loaded.execFailed) => loaded.bag = {})

\* a module with harmless functions of its own was turned down as a whole
C6_Witness ==
  /\ loaded.called
  /\ loaded.source.patterns # {}
  /\ "add" \in loaded.source.functions
  /\ loaded.bag = {}

\* C13 as stated: loading the module that declares add and leak (leak returns
\* process.env) returns a table that contains add and does not contain leak.
C13_LoadsAddWithoutLeak ==
  (loaded.called /\ loaded.source.name = "addAndLeak")
    => ("add" \in loaded.bag /\ "leak" \notin loaded.bag)

\* C13 as amended: loading that module returns an empty table; neither add nor
\* leak is in it, and the module is not run.
C13_LoadsNeitherAddNorLeak ==
  (loaded.called /\ loaded.source.name = "addAndLeak")
    => (loaded.bag = {} /\ ~loaded.executed /\ ~loaded.raised)

\* the module that declares add and leak has been loaded with default options
C13_Witness ==
  /\ loaded.called /\ loaded.source.name = "addAndLeak"
  /\ loaded.source.functions = {"add", "leak"}
  /\ loaded.options = [maxSize |-> MAX_SIZE, allowImports |-> FALSE, disableCache |-> FALSE]

\* the maximum number of entries of the helper-module cache; the loader defines none
MAX_CACHE_ENTRIES == 2

\* C10: the helper-module cache never holds more than its maximum number of entries.
C10_HelperCacheBounded == Cardinality(DOMAIN helperCache) <= MAX_CACHE_ENTRIES

-----------------------------------------------------------------------------
(* compileHelper *)

DEFAULT_MAX_LENGTH == 1000

\* the keys of compileHelper's SECURITY_PATTERNS
CompilerPatterns == {"DANGEROUS", "FILESYSTEM", "NETWORK", "OBFUSCATION"}

\* a helper source: what compileHelper can find out about it.  promisesValue is the
\* outcome of the three returns-a-value tests, syntaxOk and runs say whether the
\* wrapped source compiles and runs, isFunction and arity describe module.exports
HelperSources ==
  [isString : {TRUE}, length : {10, 600, 1001}, multiline : BOOLEAN,
   patterns : {{}, {"DANGEROUS"}, {"NETWORK", "FILESYSTEM"}, {"OBFUSCATION"}},
   promisesValue : BOOLEAN, syntaxOk : BOOLEAN, runs : {TRUE},
   isFunction : BOOLEAN, arity : {0, 1}]
  \cup
  [isString : {FALSE}, length : {0}, multiline : {FALSE}, patterns : {{}},
   promisesValue : {FALSE}, syntaxOk : {FALSE}, runs : BOOLEAN,
   isFunction : {FALSE}, arity : {0}]
  \cup
  [isString : {TRUE}, length : {10}, multiline : {FALSE}, patterns : {{}},
   promisesValue : {TRUE}, syntaxOk : {TRUE}, runs : {FALSE},
   isFunction : {FALSE}, arity : {0}]

CompileOptions ==
  [maxLength : {DEFAULT_MAX_LENGTH, 500}, allowMultiline : BOOLEAN,
   strictMode : BOOLEAN, requireParameters : BOOLEAN, wrapWithTimeout : BOOLEAN]

MatchesNothing(src) == FALSE

\* the security loop: some pattern of SECURITY_PATTERNS matches the source
MatchesSecurityPattern(src) == src.patterns \cap CompilerPatterns # {}

\* compileHelper(src, options): what it returns or throws, and whether the source
\* reached new vm.Script(...).runInContext
CompileHelper(src, o) ==
  LET Throw(message, ran) == [called |-> TRUE, src |-> src, options |-> o,
                              returned |-> "throw", message |-> message, executed |-> ran]
      \* the timeout wrapper is function(...args): its length is 0
      fnLength == IF o.wrapWithTimeout THEN 0 ELSE src.arity
  IN CASE ~src.isString -> Throw("Helper source must be a string", FALSE)
       [] src.isString /\ src.length > o.maxLength ->
            Throw("Helper source exceeds maximum length", FALSE)
       [] src.isString /\ src.length <= o.maxLength /\ ~o.allowMultiline /\ src.multiline ->
            Throw("Multiline helpers are not allowed in this context", FALSE)
       [] OTHER ->
            IF MatchesSecurityPattern(src)
            THEN Throw("Security violation: Potentially unsafe code pattern detected", FALSE)
            ELSE IF ~src.promisesValue
            THEN Throw("Helper must explicitly return a value", FALSE)
            ELSE IF ~src.syntaxOk THEN Throw("Syntax error in helper", TRUE)
            ELSE IF ~src.runs THEN Throw("Script execution failed", TRUE)
            ELSE IF ~src.isFunction
            THEN Throw("Compilation did not result in a function", TRUE)
            ELSE IF o.strictMode /\ o.requireParameters /\ fnLength = 0
            THEN Throw("Helper function must accept at least one parameter", TRUE)
            ELSE [called |-> TRUE, src |-> src, options |-> o, returned |-> "function",
                  message |-> "", executed |-> TRUE]

\* one call of compileHelper on the source and options the caller holds
Compile ==
  /\ compiled' = CompileHelper(compiled.src, compiled.options)
  /\ UNCHANGED <<renderVars, lruRet, helperCache, loaded, laterVars>>

\* the caller's source and options, before the call
CompilerInit ==
  /\ RenderIdle
  /\ expressionCache = <<>>
  /\ lruRet = Undefined
  /\ helperCache = <<>>
  /\ loaded = NoLoad
  /\ LaterIdle
  /\ compiled \in [called : {FALSE}, src : HelperSources, options : CompileOptions,
                   returned : {"pending"}, message : {""}, executed : {FALSE}]

CompilerNext == Compile

SpecCompiler == CompilerInit /\ [][CompilerNext]_allVars

PassesChecks(src, o) ==
  /\ src.isString
  /\ src.length <= o.maxLength
  /\ src.patterns = {}
  /\ src.promisesValue

\* C7: compileHelper returns a callable only for a string within the length
\* limit that matches no security pattern and passes the returns-a-value
\* check; every other source makes it throw, and nothing of such a source is
\* compiled or executed.
C7_CallableOnlyAfterAllChecks ==
  compiled.called =>
    /\ compiled.returned = "function" => PassesChecks(compiled.src, compiled.options)
    /\ ~PassesChecks(compiled.src, compiled.options)
         => compiled.returned = "throw" /\ ~compiled.executed

\* a source that would compile to a function is turned down for its pattern
\* before anything of it has run
C7_Witness ==
  /\ compiled.called
  /\ compiled.src.patterns # {}
  /\ compiled.src.promisesValue /\ compiled.src.syntaxOk /\ compiled.src.isFunction
  /\ compiled.src.length <= compiled.options.maxLength
  /\ compiled.returned = "throw" /\ ~compiled.executed

-----------------------------------------------------------------------------
(* api/astro.js: the helper assembly of one request *)

\* some of the names utils/builtin.js exports
builtinHelpers == {"capitalize", "dayOfWeek"}

GoodHelper ==
  [isString |-> TRUE, length |-> 10, multiline |-> FALSE, patterns |-> {},
   promisesValue |-> TRUE, syntaxOk |-> TRUE, runs |-> TRUE, isFunction |-> TRUE,
   arity |-> 1]
UnsafeHelper == [GoodHelper EXCEPT !.patterns = {"DANGEROUS"}]
VoidHelper == [GoodHelper EXCEPT !.promisesValue = FALSE]
BrokenHelper == [GoodHelper EXCEPT !.syntaxOk = FALSE]

\* the entries the request's helpers object may have
InlineDefs ==
  {[k |-> "age", src |-> GoodHelper], [k |-> "env", src |-> UnsafeHelper],
   [k |-> "capitalize", src |-> VoidHelper], [k |-> "half", src |-> BrokenHelper]}

NoModule == [name |-> "none"]

\* the uploaded file, and the text fetched from fileURL
AssemblyModules ==
  {m \in ModuleSources :
     m.name \in {"add", "addSubtract", "addAndLeak", "throwsAtTheEnd", "exportThrows"}}
FileInputs == AssemblyModules \cup {NoModule}
UrlInputs == AssemblyModules \cup {NoModule, [name |-> "fetchFails"]}

DefaultCompileOptions ==
  [maxLength |-> DEFAULT_MAX_LENGTH, allowMultiline |-> TRUE, strictMode |-> FALSE,
   requireParameters |-> FALSE, wrapWithTimeout |-> FALSE]
DefaultLoadOptions == [maxSize |-> MAX_SIZE, allowImports |-> FALSE, disableCache |-> FALSE]

\* helpers[k] = fn, and Object.assign(helpers, bag): later entries win
Merge(t, names, origin) ==
  [k \in DOMAIN t \cup names |-> IF k \in names THEN origin ELSE t[k]]

\* steps 2-a and 2-b: the built-ins, the inline helpers, the uploaded file
AssembleLocal ==
  /\ assembled.phase = "start"
  /\ LET t0 == [k \in builtinHelpers |-> "builtin"]
         ok == {d \in assembled.inline :
                  CompileHelper(d.src, DefaultCompileOptions).returned = "function"}
         t1 == Merge(t0, {d.k : d \in ok}, "inline")
         m == assembled.file
         r == LoadHelperModule(m, DefaultLoadOptions, m.exec # "throws")
     IN IF m = NoModule
        THEN /\ assembled' = [assembled EXCEPT !.phase = "fetch", !.table = t1]
             /\ UNCHANGED helperCache
        ELSE /\ helperCache' = r.cache
             /\ assembled' =
                  IF r.load.raised THEN [assembled EXCEPT !.phase = "failed"]
                  ELSE [assembled EXCEPT !.phase = "fetch",
                                         !.table = Merge(t1, r.load.bag, "file")]
  /\ UNCHANGED <<renderVars, lruRet, loaded, compiled, everCached, wt, moreVars>>

\* step 2-c, after the fetch: whatever goes wrong in it is ignored
AssembleRemote ==
  /\ assembled.phase = "fetch"
  /\ LET m == assembled.url
         r == LoadHelperModule(m, DefaultLoadOptions, m.exec # "throws")
     IN IF m.name \in {"none", "fetchFails"}
        THEN /\ assembled' = [assembled EXCEPT !.phase = "done"]
             /\ UNCHANGED helperCache
        ELSE /\ helperCache' = r.cache
             /\ assembled' =
                  IF r.load.raised THEN [assembled EXCEPT !.phase = "done"]
                  ELSE [assembled EXCEPT !.phase = "done",
                                         !.table = Merge(assembled.table, r.load.bag, "url")]
  /\ UNCHANGED <<renderVars, lruRet, loaded, compiled, everCached, wt, moreVars>>

AssemblyInit ==
  /\ RenderIdle
  /\ expressionCache = <<>>
  /\ lruRet = Undefined
  /\ helperCache = <<>>
  /\ loaded = NoLoad
  /\ compiled = NoCompile
  /\ everCached = {}
  /\ wt = NoTimeoutCall
  /\ MoreIdle
  /\ assembled \in [phase : {"start"}, inline : SUBSET InlineDefs, file : FileInputs,
                    url : UrlInputs, table : {<<>>}]

AssemblyNext == AssembleLocal \/ AssembleRemote

SpecAssembly == AssemblyInit /\ [][AssemblyNext]_allVars

\* the functions a module contributes when it passes validation and runs
Contributes(m) ==
  IF m.name \in {"none", "fetchFails"} THEN {}
  ELSE IF m.patterns = {} /\ m.length <= MAX_SIZE /\ m.exec = "ok" THEN m.functions
  ELSE {}

\* C12: a helper definition or module that fails contributes nothing and does
\* not stop the assembly: no helper source makes the assembly raise, and the
\* final table has every built-in and every helper that compiled or loaded.
C12_BadHelperNeverStopsAssembly ==
  /\ assembled.phase # "failed"
  /\ assembled.phase = "done" =>
       DOMAIN assembled.table =
         builtinHelpers
         \cup {d.k : d \in {x \in assembled.inline : x.src = GoodHelper}}
         \cup Contributes(assembled.file) \cup Contributes(assembled.url)

-----------------------------------------------------------------------------
(* errorHandler.js: withTimeout(fn, ms) on the event loop *)

\* what fn does when called
FnKinds == {"resolves", "rejects", "never", "throwsSync", "returnsValue",
            "blocksThenResolves", "spins"}

FnValues == {"v1", "v2"}

\* fn returns at once, with a promise or a plain value
ReturnsAtOnce(kind) == kind \in {"resolves", "rejects", "never", "returnsValue"}

KeepTimer(timer) == timer

\* createTimeout's cleanup(): a pending timer is cleared, a fired one stays fired
Cleanup(timer) == IF timer = "pending" THEN "cleared" ELSE timer

Settle(w, outcome) ==
  [w EXCEPT !.phase = "settled", !.outcomes = Append(w.outcomes, outcome),
            !.timer = Cleanup(w.timer), !.deliveredAt = w.elapsed]

\* withTimeout up to its await: the timer is armed, then fn is called
WithTimeoutStart ==
  /\ wt.phase = "ready"
  /\ LET armed == [wt EXCEPT !.timer = "pending"]
     IN wt' = CASE wt.fn = "throwsSync" ->
                     Settle([armed EXCEPT !.fnState = "threw"], <<"error", wt.value>>)
                [] ReturnsAtOnce(wt.fn) ->
                     [armed EXCEPT !.phase = "racing",
                                   !.fnState = IF wt.fn = "returnsValue" THEN "fulfilled"
                                               ELSE "pending"]
                [] OTHER -> [armed EXCEPT !.phase = "blocked", !.fnState = "running"]
  /\ UNCHANGED <<renderVars, lruRet, helperCache, loaded, compiled, everCached, assembled, moreVars>>

\* time passes; a due timer runs as soon as the event loop is free
WtTick ==
  /\ wt.phase \in {"racing", "blocked"}
  /\ wt.elapsed <= wt.ms
  /\ wt.phase = "racing" => wt.elapsed < wt.ms
  /\ wt' = [wt EXCEPT !.elapsed = wt.elapsed + 1]
  /\ UNCHANGED <<renderVars, lruRet, helperCache, loaded, compiled, everCached, assembled, moreVars>>

\* fn's promise settles while the race is on: the await resumes, cleanup, return/throw
FnSettles ==
  /\ wt.phase = "racing"
  /\ \/ wt.fn \in {"resolves", "returnsValue"} /\
          wt' = Settle([wt EXCEPT !.fnState = "fulfilled"], <<"result", wt.value>>)
     \/ wt.fn = "rejects" /\
          wt' = Settle([wt EXCEPT !.fnState = "rejected"], <<"error", wt.value>>)
  /\ wt.fn = "returnsValue" => wt.elapsed = 0
  /\ UNCHANGED <<renderVars, lruRet, helperCache, loaded, compiled, everCached, assembled, moreVars>>

\* the timer's callback runs: the timeout promise rejects and wins the race
TimerFires ==
  /\ wt.phase = "racing" /\ wt.timer = "pending" /\ wt.elapsed >= wt.ms
  /\ wt.fn # "returnsValue"
  /\ wt' = Settle([wt EXCEPT !.timer = "fired"], <<"TimeoutError", wt.ms>>)
  /\ UNCHANGED <<renderVars, lruRet, helperCache, loaded, compiled, everCached, assembled, moreVars>>

\* fn has kept the thread for longer than ms and now returns a resolved promise:
\* the await resumes in microtasks, before the overdue timer callback can run
FnUnblocks ==
  /\ wt.phase = "blocked" /\ wt.fn = "blocksThenResolves" /\ wt.elapsed > wt.ms
  /\ wt' = Settle([wt EXCEPT !.fnState = "fulfilled"], <<"result", wt.value>>)
  /\ UNCHANGED <<renderVars, lruRet, helperCache, loaded, compiled, everCached, assembled, moreVars>>

\* fn's promise settles after the race is over: nobody listens any more
FnSettlesLate ==
  /\ wt.phase = "settled" /\ wt.fnState = "pending" /\ wt.fn \in {"resolves", "rejects"}
  /\ wt' = [wt EXCEPT !.fnState = IF wt.fn = "resolves" THEN "fulfilled" ELSE "rejected"]
  /\ UNCHANGED <<renderVars, lruRet, helperCache, loaded, compiled, everCached, assembled, moreVars>>

TimeoutInit ==
  /\ RenderIdle
  /\ expressionCache = <<>>
  /\ lruRet = Undefined
  /\ helperCache = <<>>
  /\ loaded = NoLoad
  /\ compiled = NoCompile
  /\ MoreIdle
  /\ everCached = {}
  /\ assembled = NoAssembly
  /\ wt \in [phase : {"ready"}, fn : FnKinds, value : FnValues, ms : 1..TimeoutTicks,
             fnState : {"notCalled"}, timer : {"none"}, elapsed : {0},
             outcomes : {<<>>}, deliveredAt : {0}]

TimeoutNext ==
  WithTimeoutStart \/ WtTick \/ FnSettles \/ TimerFires \/ FnUnblocks \/ FnSettlesLate

SpecTimeout == TimeoutInit /\ [][TimeoutNext]_allVars

-----------------------------------------------------------------------------
(* The same fillVars call with debugMode off and then on: each call starts from
   the state of a fresh process *)

DebugCall ==
  /\ pc \in {"done", "rejected"} /\ ~plain.ran
  /\ plain' = [ran |-> TRUE, pc |-> pc, result |-> result, evalLog |-> evalLog]
  /\ options' = [options EXCEPT !.debugMode = TRUE]
  /\ pc' = "call"
  /\ result' = <<>>
  /\ depth' = 0
  /\ stack' = <<>>
  /\ ev' = NoEval
  /\ evalLog' = <<>>
  /\ expressionCache' = <<>>
  /\ hostMath' = "unset"
  /\ UNCHANGED <<template, vars, helpers, lruRet, helperCache, loaded, compiled,
                 everCached, assembled, wt, classified, sandbox, registered, renders, tailVars>>

ModesInit == Init /\ ~options.debugMode

ModesNext ==
  Call \/ Scan \/ EvalStart \/ Resume \/ Tick \/ TimerFire \/ NestedReturn \/ Finish
    \/ DebugCall

SpecModes == ModesInit /\ [][ModesNext]_allVars

\* C24: debugMode changes only the text of error markers and of
\* missing-placeholder marks: for the same template, vars and helpers the call
\* resolves in both modes, the same blocks are evaluated in the same order, and
\* a block that succeeds renders to the same text.
C24_DebugChangesOnlyMarkers ==
  /\ []((plain.ran /\ pc \in {"done", "rejected"})
          => /\ plain.pc = "done" /\ pc = "done"
             /\ evalLog = plain.evalLog)
  /\ [][(plain.ran /\ ev.active /\ ev.outcome.kind \in {"value", "undefined"}
           /\ ~ev'.active)
          => /\ Len(stack') = Len(stack)
             /\ stack'[Len(stack)].out
                  = Top.out \o EvalSettled(ev.outcome, Top.expr, FALSE).text]_allVars

-----------------------------------------------------------------------------
(* classifyError (utils/errorClassifier.js). A text is a sequence of phrases;
   a row of the pattern table matches a text that holds one of the phrases
   its regular expression matches. *)

MaxWords == 2

\* ERROR_PATTERNS, in order: the type of each row and the phrases it matches
ERROR_PATTERNS ==
  << [type |-> "SYNTAX_ERROR", phrases |-> {"Unexpected token", "SyntaxError"}],
     [type |-> "REFERENCE_ERROR",
      phrases |-> {"x is not defined", "helper is not defined", "ReferenceError"}],
     [type |-> "TYPE_ERROR", phrases |-> {"is not a function", "TypeError"}],
     [type |-> "SECURITY_ERROR", phrases |-> {"restricted", "SecurityError"}],
     [type |-> "TIMEOUT_ERROR",
      phrases |-> {"timed out", "TimeoutError", "at listOnTimeout"}],
     [type |-> "NESTING_ERROR", phrases |-> {"nested template"}],
     [type |-> "ITERATION_ERROR", phrases |-> {"iteration"}],
     [type |-> "MODULE_ERROR", phrases |-> {"Module is not in the allowlist"}],
     [type |-> "HELPER_ERROR", phrases |-> {"helper is not defined", "helper is missing"}],
     [type |-> "JSON_ERROR", phrases |-> {"JSON.parse"}] >>

Taxonomy == {ERROR_PATTERNS[r].type : r \in DOMAIN ERROR_PATTERNS} \cup {"UNKNOWN_ERROR"}

\* text.match(pattern.pattern)
PatternMatches(r, text) == \E n \in 1..Len(text) : text[n] \in ERROR_PATTERNS[r].phrases

\* String(error) of an Error object
ErrorToString(e) ==
  IF e.message = <<>> THEN <<e.name>> ELSE <<e.name, ": ">> \o e.message

\* error.stack: absent, or the header line and the frames below it
StackText(e) ==
  CASE e.stack = "absent" -> <<>>
    [] e.stack = "plain" -> ErrorToString(e) \o <<"at render">>
    [] e.stack = "timer" -> ErrorToString(e) \o <<"at listOnTimeout">>

\* the for loop over ERROR_PATTERNS: the type of the first row that matches
\* the message or the stack
RECURSIVE FirstMatch(_, _, _)
FirstMatch(r, errorMessage, errorStack) ==
  IF r > Len(ERROR_PATTERNS) THEN "UNKNOWN_ERROR"
  ELSE IF PatternMatches(r, errorMessage) \/ PatternMatches(r, errorStack)
  THEN ERROR_PATTERNS[r].type
  ELSE FirstMatch(r + 1, errorMessage, errorStack)

Threw(e, name) == [called |-> TRUE, error |-> e, threw |-> name]
Classification(e, type, originalMessage) ==
  [called |-> TRUE, error |-> e, threw |-> "", type |-> type,
   originalMessage |-> originalMessage]

classifyError(e) ==
  IF e.kind \in {"null", "undefined"} THEN Threw(e, "TypeError")
  ELSE
    LET errorMessage == IF e.message # <<>> THEN e.message ELSE ErrorToString(e)
        errorStack == StackText(e)
        errorName == e.name
    IN IF errorName = "SecurityError" \/ e.code = "SECURITY_VIOLATION"
       THEN Classification(e, "SECURITY_ERROR", errorMessage)
       ELSE IF errorName = "TimeoutError"
       THEN Classification(e, "TIMEOUT_ERROR", errorMessage)
       ELSE Classification(e, FirstMatch(1, errorMessage, errorStack), errorMessage)

MessagePhrases ==
  {"Unexpected token", "x is not defined", "is not a function", "restricted",
   "timed out", "nested template", "iteration", "Module is not in the allowlist",
   "helper is missing", "helper is not defined", "JSON.parse", "Invalid date format"}

RECURSIVE TextsUpTo(_)
TextsUpTo(n) ==
  IF n = 0 THEN {<<>>}
  ELSE LET shorter == TextsUpTo(n - 1)
       IN shorter \cup {Append(t, w) : t \in shorter, w \in MessagePhrases}

ErrorNames ==
  {"Error", "SyntaxError", "ReferenceError", "TypeError", "SecurityError",
   "TimeoutError", "ValidationError"}

\* the values a catch clause can hand to classifyError
ThrownErrors ==
  [kind : {"error"}, name : ErrorNames, code : {"", "SECURITY_VIOLATION"},
   message : TextsUpTo(MaxWords), stack : {"absent", "plain", "timer"}]
  \cup {[kind |-> k, name |-> "", code |-> "", message |-> <<>>, stack |-> "absent"] :
          k \in {"null", "undefined"}}

Classify ==
  /\ ~classified.called
  /\ classified' = classifyError(classified.error)
  /\ UNCHANGED <<renderVars, lruRet, helperCache, loaded, compiled, everCached,
                 assembled, wt, plain, sandbox, registered, renders, tailVars>>

ClassifyInit ==
  /\ template = <<>> /\ vars = NoVars /\ helpers = {} /\ pc = "done"
  /\ options \in {o \in OptionSets : DefaultOptions(o)}
  /\ result = <<>> /\ depth = 0 /\ stack = <<>> /\ ev = NoEval
  /\ expressionCache = <<>> /\ hostMath = "unset" /\ evalLog = <<>>
  /\ lruRet = Undefined /\ helperCache = <<>> /\ loaded = NoLoad /\ compiled = NoCompile
  /\ everCached = {} /\ assembled = NoAssembly /\ wt = NoTimeoutCall
  /\ plain = NoPlainRun
  /\ sandbox = NoSandbox
  /\ registered = NoHelper
  /\ renders = NoRenders
  /\ TailIdle
  /\ classified \in [called : {FALSE}, error : ThrownErrors]

ClassifyNext == Classify

SpecClassify == ClassifyInit /\ [][ClassifyNext]_allVars

\* the first row of the table matching the message or the stack of e
RECURSIVE FirstRowType(_, _)
FirstRowType(r, e) ==
  IF r > Len(ERROR_PATTERNS) THEN "UNKNOWN_ERROR"
  ELSE IF PatternMatches(r, e.message) \/ PatternMatches(r, StackText(e))
  THEN ERROR_PATTERNS[r].type
  ELSE FirstRowType(r + 1, e)

\* C23: classifyError gives every error exactly one type of the taxonomy:
\* SECURITY_ERROR for the name SecurityError or the code SECURITY_VIOLATION,
\* TIMEOUT_ERROR for the name TimeoutError, else the type of the first row
\* matching the message or the stack, UNKNOWN_ERROR when none does; and it
\* returns the original message unchanged.
C23_OneTypeAndMessageKept ==
  classified.called =>
    LET e == classified.error
    IN /\ classified.threw = ""
       /\ classified.type \in Taxonomy
       /\ classified.type =
            IF e.name = "SecurityError" \/ e.code = "SECURITY_VIOLATION"
            THEN "SECURITY_ERROR"
            ELSE IF e.name = "TimeoutError" THEN "TIMEOUT_ERROR"
            ELSE FirstRowType(1, e)
       /\ classified.originalMessage = e.message

-----------------------------------------------------------------------------
(* runInSecureContext and createSecureContext (utils/secureContext.js): the
   host's Object.prototype over a series of runs in one process *)

MaxRuns == 3

\* the code of a run: what it tries to do to a prototype
\*   "assign"      Object.prototype.polluted = true
\*   "overwrite"   Object.prototype.toString = () => "Hacked"
\*   "define"      Object.defineProperty(Object.prototype, 'polluted', { value: true })
\*   "literal"     ({}).__proto__.polluted = true
\*   "none"        1 + 1
SandboxCodes == {"assign", "overwrite", "define", "literal", "none"}

\* const isTest = process.env.NODE_ENV === 'test' || options.testMode
IsTest(nodeEnv, options_testMode) == nodeEnv = "test" \/ options_testMode

\* createSecureContext with default options: Object.freeze(context.Object.prototype),
\* where context.Object is the host's Object
FreezePrototypes(host) == [host EXCEPT !.frozen = TRUE]

\* the properties of the host's Object.prototype after the code has run.
\* Object of the context is the host's Object; an object literal of the code
\* has the prototype of the context's own realm, which ends with the run.
RunCode(code, host) ==
  CASE code \in {"assign", "define"} ->
         IF host.frozen THEN host ELSE [host EXCEPT !.added = @ \cup {"polluted"}]
    [] code = "overwrite" ->
         IF host.frozen THEN host ELSE [host EXCEPT !.changed = @ \cup {"toString"}]
    [] OTHER -> host

\* what the promise of runInSecureContext settles to: defineProperty on a
\* frozen object throws, a sloppy-mode assignment to it is ignored
RunResult(code, host) ==
  IF code = "define" /\ host.frozen THEN "rejected" ELSE "resolved"

RunInSecureContext ==
  /\ sandbox.phase = "ready" /\ sandbox.runs < MaxRuns
  /\ \E code \in SandboxCodes :
       LET host == IF IsTest(sandbox.nodeEnv, FALSE) THEN sandbox.host
                   ELSE FreezePrototypes(sandbox.host)
       IN sandbox' = [sandbox EXCEPT !.host = RunCode(code, host),
                                     !.runs = @ + 1,
                                     !.log = Append(@, <<code, RunResult(code, host)>>)]
  /\ UNCHANGED <<renderVars, lruRet, helperCache, loaded, compiled, everCached,
                 assembled, wt, classified, plain, registered, renders, tailVars>>

SandboxInit ==
  /\ template = <<>> /\ vars = NoVars /\ helpers = {} /\ pc = "done"
  /\ options \in {o \in OptionSets : DefaultOptions(o)}
  /\ result = <<>> /\ depth = 0 /\ stack = <<>> /\ ev = NoEval
  /\ expressionCache = <<>> /\ hostMath = "unset" /\ evalLog = <<>>
  /\ lruRet = Undefined /\ helperCache = <<>> /\ loaded = NoLoad /\ compiled = NoCompile
  /\ everCached = {} /\ assembled = NoAssembly /\ wt = NoTimeoutCall
  /\ classified = NoClassification /\ plain = NoPlainRun /\ registered = NoHelper
  /\ renders = NoRenders
  /\ TailIdle
  /\ sandbox \in [phase : {"ready"}, nodeEnv : {"production", "test", "undefined"},
                   host : {[frozen |-> FALSE, added |-> {}, changed |-> {}]},
                   runs : {0}, log : {<<>>}]

SandboxNext == RunInSecureContext

SpecSandbox == SandboxInit /\ [][SandboxNext]_allVars

\* C25: with default options, code run through runInSecureContext cannot add
\* or change properties of Object.prototype: objects of the host and of later
\* runs show no such change.
C25_ObjectPrototypeUntouched ==
  sandbox.phase = "ready" => sandbox.host.added = {} /\ sandbox.host.changed = {}

-----------------------------------------------------------------------------
(* The "returns a value" checks of compileHelper and of loadHelperModule, and
   what the functions they let through return. A helper text is a sequence of
   tokens; "(x)", "()" and "(x+1)" are parenthesised groups. *)

ParenGroups == {"(x)", "()", "(x+1)"}

HelperTexts ==
  { <<"x", "=>", " ", "x+1">>,
    <<"x", "=>", " ", "(x+1)">>,
    <<"x", "=>", "(x+1)">>,
    <<"(x)", "=>", " ", "{", "return", " ", "x+1", "}">>,
    <<"()", "=>", " ", "{", "log()", "}">>,
    <<"()", "=>", "{", "log()", "}">>,
    <<"(x)", "=>", " ", "{", "if(x)", "return", " ", "1", "}">>,
    <<"x", "=>", " ", "undefined">>,
    <<"function", " ", "(x)", "{", "return", " ", "x+1", "}">>,
    <<"function", " ", "()", "{", "log()", "}">> }

\* the first index from n on that holds no white space (Len + 1 when none)
RECURSIVE SkipBlanks(_, _)
SkipBlanks(s, n) == IF n <= Len(s) /\ s[n] = " " THEN SkipBlanks(s, n + 1) ELSE n

\* /=>\s*(\([^)]*\)|[^({\s])/.test(src.trim())
ArrowConcise(s) ==
  \E n \in 1..Len(s) :
    /\ s[n] = "=>"
    /\ LET m == SkipBlanks(s, n + 1)
       IN m <= Len(s) /\ s[m] # "{"

\* /=>\s*[^({]/.test(s): the character after the arrow may be white space
ArrowNoBraces(s) ==
  \E n \in 1..Len(s) :
    /\ s[n] = "=>" /\ n < Len(s)
    /\ \/ s[n + 1] = " "
       \/ s[n + 1] \notin ParenGroups \cup {"{"}

\* /return\s+[^;]*/.test(s)
ExplicitReturn(s) ==
  \E n \in 1..Len(s) : s[n] = "return" /\ n < Len(s) /\ s[n + 1] = " "

\* compileHelper's returnsValue
returnsValue(s) == ArrowConcise(s) \/ ExplicitReturn(s)

\* the loader's returnsSomething(fn), fn.toString() being the text
returnsSomething(s) == ArrowNoBraces(s) \/ ExplicitReturn(s)

HelperArgs == {"truthy", "falsy", "missing"}

\* what the function of text s returns when called with the argument
CallResult(s, arg) ==
  LET hasBlock == \E n \in 1..Len(s) : s[n] = "{"
      returns == \E n \in 1..Len(s) : s[n] = "return"
      guarded == \E n \in 1..Len(s) : s[n] = "if(x)"
  IN IF ~hasBlock THEN (IF s[Len(s)] = "undefined" THEN "undefined" ELSE "value")
     ELSE IF ~returns THEN "undefined"
     ELSE IF guarded /\ arg # "truthy" THEN "undefined"
     ELSE "value"

\* compileHelper(src, options) with the text s, or the harvest of
\* loadHelperModule over a module that exports the function of text s
Register ==
  /\ registered.status = "pending"
  /\ LET s == registered.text
         o == [DefaultCompileOptions EXCEPT !.wrapWithTimeout = registered.wrap]
         src == [GoodHelper EXCEPT !.promisesValue = returnsValue(s)]
         ok == IF registered.by = "compileHelper"
               THEN CompileHelper(src, o).returned = "function"
               ELSE returnsSomething(s)
     IN registered' = [registered EXCEPT !.status = IF ok THEN "registered" ELSE "rejected"]
  /\ UNCHANGED <<renderVars, lruRet, helperCache, loaded, compiled, everCached,
                 assembled, wt, classified, plain, sandbox, renders, tailVars>>

\* a call of the registered function; the timeout wrapper of compileHelper
\* returns a promise whatever the function returns
CallHelper ==
  /\ registered.status = "registered"
  /\ registered' =
       [registered EXCEPT !.status = "called",
                          !.result = IF registered.wrap THEN "promise"
                                     ELSE CallResult(registered.text, registered.arg)]
  /\ UNCHANGED <<renderVars, lruRet, helperCache, loaded, compiled, everCached,
                 assembled, wt, classified, plain, sandbox, renders, tailVars>>

HelpersInit ==
  /\ template = <<>> /\ vars = NoVars /\ helpers = {} /\ pc = "done"
  /\ options \in {o \in OptionSets : DefaultOptions(o)}
  /\ result = <<>> /\ depth = 0 /\ stack = <<>> /\ ev = NoEval
  /\ expressionCache = <<>> /\ hostMath = "unset" /\ evalLog = <<>>
  /\ lruRet = Undefined /\ helperCache = <<>> /\ loaded = NoLoad /\ compiled = NoCompile
  /\ everCached = {} /\ assembled = NoAssembly /\ wt = NoTimeoutCall
  /\ classified = NoClassification /\ plain = NoPlainRun /\ sandbox = NoSandbox
  /\ renders = NoRenders
  /\ TailIdle
  /\ registered \in
       {r \in [status : {"pending"}, by : {"compileHelper", "loadHelperModule"},
               text : HelperTexts, wrap : BOOLEAN, arg : HelperArgs, result : {"none"}] :
          r.wrap => r.by = "compileHelper"}

HelpersNext == Register \/ CallHelper

SpecHelpers == HelpersInit /\ [][HelpersNext]_allVars

\* C26: every callable compileHelper returns and every function in a table
\* of loadHelperModule returns a value other than undefined whenever it is
\* called: a function that can complete without a value is never registered.
C26_RegisteredHelpersReturnValues ==
  /\ registered.status = "called" => registered.result # "undefined"
  /\ registered.status \in {"registered", "called"}
       => \A a \in HelperArgs : CallResult(registered.text, a) # "undefined"

-----------------------------------------------------------------------------
(* Concurrent fillVars calls sharing expressionCache. A call runs without
   interruption from one await to the next: evalExpr's has / set / get and the
   call of withTimeout are one step, the wait for the script's promise another. *)

MaxEvals == 2

\* the calls in flight
Renders == {1, 2}

ConcurrentExprs == {<<"1">>, <<"2">>, <<"a">>, <<"1", "2">>, <<"?">>}

\* fillVars up to its first await: if (clearCache) expressionCache.clear()
FillVarsStart(i) ==
  /\ renders[i].pc = "idle"
  /\ \E clearCache \in BOOLEAN :
       /\ expressionCache' = IF clearCache THEN LRUClear(expressionCache)
                             ELSE expressionCache
       /\ renders' = [renders EXCEPT ![i].pc = "scan", ![i].clearCache = clearCache]
  /\ UNCHANGED <<template, vars, helpers, options, pc, result, depth, stack, ev,
                 hostMath, evalLog, lruRet, helperCache, loaded, compiled, everCached,
                 assembled, wt, classified, plain, sandbox, registered, tailVars>>

\* evalExpr of the next block up to its await
EvalBegin(i) ==
  /\ renders[i].pc = "scan" /\ renders[i].evals < MaxEvals
  /\ \E expr \in ConcurrentExprs :
       LET hit == LRUHas(expressionCache, expr)
           stored == IF hit THEN expressionCache
                     ELSE LRUSet(expressionCache, expr, expr, CacheMaxSize)
           found == LRUHas(stored, expr)
       IN IF ~hit /\ ~Compiles(expr)
          THEN /\ renders' = [renders EXCEPT ![i].evals = @ + 1]
               /\ UNCHANGED expressionCache
          ELSE /\ expressionCache' = LRUGet(stored, expr)
               /\ renders' = [renders EXCEPT
                     ![i].pc = "awaiting", ![i].expr = expr, ![i].found = found,
                     ![i].script = IF found THEN LRUGetItem(stored, expr) ELSE <<>>]
  /\ UNCHANGED <<template, vars, helpers, options, pc, result, depth, stack, ev,
                 hostMath, evalLog, lruRet, helperCache, loaded, compiled, everCached,
                 assembled, wt, classified, plain, sandbox, registered, tailVars>>

\* the awaited evaluation settles and the scan goes on
EvalEnd(i) ==
  /\ renders[i].pc = "awaiting"
  /\ renders' = [renders EXCEPT ![i].pc = "scan", ![i].evals = @ + 1]
  /\ UNCHANGED <<renderVars, lruRet, helperCache, loaded, compiled, everCached,
                 assembled, wt, classified, plain, sandbox, registered, tailVars>>

\* the scan is over and the call resolves
RenderDone(i) ==
  /\ renders[i].pc = "scan"
  /\ renders' = [renders EXCEPT ![i].pc = "done"]
  /\ UNCHANGED <<renderVars, lruRet, helperCache, loaded, compiled, everCached,
                 assembled, wt, classified, plain, sandbox, registered, tailVars>>

ConcurrentInit ==
  /\ RenderIdle
  /\ expressionCache = <<>>
  /\ lruRet = Undefined /\ helperCache = <<>> /\ loaded = NoLoad /\ compiled = NoCompile
  /\ everCached = {} /\ assembled = NoAssembly /\ wt = NoTimeoutCall
  /\ classified = NoClassification /\ plain = NoPlainRun /\ sandbox = NoSandbox
  /\ registered = NoHelper
  /\ TailIdle
  /\ renders = [i \in Renders |->
                  [pc |-> "idle", clearCache |-> FALSE, evals |-> 0, expr |-> <<>>,
                   found |-> FALSE, script |-> <<>>]]

ConcurrentNext ==
  \E i \in Renders : FillVarsStart(i) \/ EvalBegin(i) \/ EvalEnd(i) \/ RenderDone(i)

SpecConcurrent == ConcurrentInit /\ [][ConcurrentNext]_allVars

\* C27: when renders interleave at their awaits, every evaluation runs the
\* script compiled from its own expression text, the lookup after the
\* presence-check/insert step never comes back empty, and the cache stays
\* within its capacity after every step, whatever other renders clear or evict.
C27_SharedCacheSafeUnderInterleaving ==
  /\ Len(expressionCache) <= CacheMaxSize
  /\ \A i \in DOMAIN renders :
       renders[i].pc = "awaiting"
         => renders[i].found /\ renders[i].script = renders[i].expr

\* a render still awaits an evaluation whose script another render, one that
\* asked for the cache to be cleared, has meanwhile pushed out of a full cache
C27_Witness ==
  \E i, j \in DOMAIN renders :
    /\ i # j
    /\ renders[i].pc = "awaiting" /\ renders[i].found
    /\ ~LRUHas(expressionCache, renders[i].expr)
    /\ Len(expressionCache) = CacheMaxSize
    /\ renders[j].pc = "awaiting" /\ renders[j].clearCache /\ ~renders[i].clearCache

-----------------------------------------------------------------------------
(* Loads of a module whose function keeps state in its closure:
     let n = 0; module.exports = { next: () => { n += 1; return n } }
   Each execution of the module text makes a new closure (an instance); a table
   is known by the instance its function belongs to. *)

MaxLoads == 3
MaxCalls == 3

CounterModule == Module("counter", 10, {}, "ok", {"next"})

\* loadHelperModule(code, options): the table served from global.__helperCache
\* is the very object stored there, with the functions of the run that made it
LoadCounter ==
  /\ counters.phase = "ready" /\ Len(counters.tables) < MaxLoads
  /\ \E disableCache \in BOOLEAN :
       LET o == [DefaultLoadOptions EXCEPT !.disableCache = disableCache]
           r == LoadHelperModule(CounterModule, o, TRUE)
           fresh == Len(counters.instances) + 1
       IN /\ helperCache' = r.cache
          /\ counters' =
               IF r.load.fromCache
               THEN [counters EXCEPT !.tables = Append(@, counters.cached),
                                     !.calls = Append(@, 0)]
               ELSE [counters EXCEPT !.instances = Append(@, 0),
                                     !.tables = Append(@, fresh),
                                     !.calls = Append(@, 0),
                                     !.cached = IF disableCache THEN @ ELSE fresh]
  /\ UNCHANGED <<renderVars, lruRet, loaded, compiled, everCached, assembled, wt,
                 classified, plain, sandbox, registered, renders, sf>>

\* next() through the table of load t
CallNext(t) ==
  /\ counters.phase = "ready" /\ counters.total < MaxCalls
  /\ LET inst == counters.tables[t]
         n == counters.instances[inst] + 1
     IN counters' = [counters EXCEPT !.instances[inst] = n,
                                     !.calls[t] = @ + 1,
                                     !.total = @ + 1,
                                     !.last = [table |-> t, result |-> n]]
  /\ UNCHANGED <<renderVars, lruRet, helperCache, loaded, compiled, everCached,
                 assembled, wt, classified, plain, sandbox, registered, renders, sf>>

StatefulInit ==
  /\ RenderIdle
  /\ expressionCache = <<>>
  /\ lruRet = Undefined /\ helperCache = <<>> /\ loaded = NoLoad /\ compiled = NoCompile
  /\ everCached = {} /\ assembled = NoAssembly /\ wt = NoTimeoutCall
  /\ classified = NoClassification /\ plain = NoPlainRun /\ sandbox = NoSandbox
  /\ registered = NoHelper /\ renders = NoRenders /\ sf = NoSecureCall
  /\ counters = [phase |-> "ready", instances |-> <<>>, cached |-> 0, tables |-> <<>>,
                 calls |-> <<>>, total |-> 0, last |-> [table |-> 0, result |-> 0]]

StatefulNext == LoadCounter \/ \E t \in DOMAIN counters.tables : CallNext(t)

SpecStateful == StatefulInit /\ [][StatefulNext]_allVars

\* C28: helpers of loadHelperModule carry no state from one render or request
\* to another: what a call through the table of one load returns does not
\* depend on the calls made through the tables of earlier loads of the same
\* source (here: the k-th call through a table returns k).
C28_LoadsShareNoState ==
  (counters.phase = "ready" /\ counters.last.table # 0)
    => counters.last.result = counters.calls[counters.last.table]

-----------------------------------------------------------------------------
(* secureContext.js: the race of runSecureFunction, and of the asynchronous
   branch of runInSecureContext, between the execution and the timeout timer *)

SecureCallers == {"runSecureFunction", "runInSecureContext"}

\* the abort listener keeping the timer
ListenerKeepsTimer(timer) == timer

\* signal.addEventListener('abort', ...): if (timeoutId) clearTimeout(timeoutId)
AbortListener(timer) == IF timer = "armed" THEN "cleared" ELSE timer

\* controller.abort(): the listeners run on the first call only
Abort(s) ==
  IF s.aborted THEN s
  ELSE [s EXCEPT !.aborted = TRUE, !.timer = AbortListener(s.timer)]

\* Promise.race: the first promise to settle decides, later ones are ignored
Race(s, outcome) ==
  IF s.outcomes = <<>>
  THEN [s EXCEPT !.outcomes = <<outcome>>, !.phase = "settled"]
  ELSE s

\* the execution settles: .finally(() => controller.abort()), then the race
ExecSettles(s, state, outcome) ==
  Race(Abort([s EXCEPT !.exec = state,
                       !.first = IF s.first = "none" THEN "execution" ELSE s.first]),
       outcome)

\* what the execution settles to, per kind of fn
ExecOutcome(s) ==
  IF s.fn \in {"rejects", "throwsSync"} THEN <<"error", s.value>>
  ELSE <<"result", s.value>>

ExecState(s) == IF s.fn \in {"rejects", "throwsSync"} THEN "rejected" ELSE "fulfilled"

\* up to await Promise.race([...]) and the microtasks behind it: the timer is
\* armed and fn has been called (runSecureFunction), or the promise of the
\* script is already there (runInSecureContext)
SecureStart ==
  /\ sf.phase = "ready"
  /\ LET armed == [sf EXCEPT !.timer = "armed"]
     IN sf' = CASE sf.fn \in {"throwsSync", "returnsValue"} ->
                     ExecSettles(armed, ExecState(sf), ExecOutcome(sf))
                [] sf.fn \in {"resolves", "rejects", "never"} ->
                     [armed EXCEPT !.phase = "racing", !.exec = "pending"]
                [] OTHER -> [armed EXCEPT !.phase = "blocked", !.exec = "running"]
  /\ UNCHANGED <<renderVars, lruRet, helperCache, loaded, compiled, everCached,
                 assembled, wt, classified, plain, sandbox, registered, renders, counters>>

\* time passes; a due timer runs as soon as the event loop is free
SfTick ==
  /\ sf.phase \in {"racing", "blocked"}
  /\ sf.elapsed <= sf.ms
  /\ sf.phase = "racing" => sf.elapsed < sf.ms
  /\ sf' = [sf EXCEPT !.elapsed = sf.elapsed + 1]
  /\ UNCHANGED <<renderVars, lruRet, helperCache, loaded, compiled, everCached,
                 assembled, wt, classified, plain, sandbox, registered, renders, counters>>

\* the promise of the execution settles, during the race or after it
SfExecSettles ==
  /\ sf.phase \in {"racing", "settled"} /\ sf.exec = "pending"
  /\ sf.fn \in {"resolves", "rejects"}
  /\ sf' = ExecSettles(sf, ExecState(sf), ExecOutcome(sf))
  /\ UNCHANGED <<renderVars, lruRet, helperCache, loaded, compiled, everCached,
                 assembled, wt, classified, plain, sandbox, registered, renders, counters>>

\* the timer's callback: timeoutId = null, controller.abort(), reject(...)
SfTimerFires ==
  /\ sf.phase = "racing" /\ sf.timer = "armed" /\ sf.elapsed >= sf.ms
  /\ sf' = Race(Abort([sf EXCEPT !.timer = "fired",
                                 !.first = IF sf.first = "none" THEN "timer" ELSE sf.first]),
                <<"timeout", sf.ms>>)
  /\ UNCHANGED <<renderVars, lruRet, helperCache, loaded, compiled, everCached,
                 assembled, wt, classified, plain, sandbox, registered, renders, counters>>

\* fn has kept the thread for longer than the timeout and now returns: the
\* microtasks of .finally run before the overdue timer callback can
SfUnblocks ==
  /\ sf.phase = "blocked" /\ sf.fn = "blocksThenResolves" /\ sf.elapsed > sf.ms
  /\ sf' = ExecSettles(sf, "fulfilled", <<"result", sf.value>>)
  /\ UNCHANGED <<renderVars, lruRet, helperCache, loaded, compiled, everCached,
                 assembled, wt, classified, plain, sandbox, registered, renders, counters>>

SecureCallInit ==
  /\ RenderIdle
  /\ expressionCache = <<>>
  /\ lruRet = Undefined /\ helperCache = <<>> /\ loaded = NoLoad /\ compiled = NoCompile
  /\ everCached = {} /\ assembled = NoAssembly /\ wt = NoTimeoutCall
  /\ classified = NoClassification /\ plain = NoPlainRun /\ sandbox = NoSandbox
  /\ registered = NoHelper /\ renders = NoRenders /\ counters = NoCounters
  /\ sf \in {s \in [phase : {"ready"}, by : SecureCallers,
                     fn : FnKinds, value : FnValues, ms : 1..TimeoutTicks,
                     elapsed : {0}, timer : {"none"}, aborted : {FALSE},
                     exec : {"notCalled"}, outcomes : {<<>>}, first : {"none"}] :
               \* the script of runInSecureContext has run before the timer is armed
               s.by = "runInSecureContext" => s.fn \notin {"blocksThenResolves", "spins"}}

SecureCallNext == SecureStart \/ SfTick \/ SfExecSettles \/ SfTimerFires \/ SfUnblocks

SpecSecureCall == SecureCallInit /\ [][SecureCallNext]_allVars

\* C29: in runSecureFunction and in the asynchronous branch of
\* runInSecureContext, whichever comes first of the execution settling and the
\* timer firing alone decides the outcome; the abort signal is raised in
\* either case, and once the call has settled no timeout timer is armed.
C29_FirstEventDecidesAndTimerReleased ==
  sf.phase # "idle" =>
    /\ sf.phase = "settled" <=> sf.first # "none"
    /\ sf.first = "none" => sf.outcomes = <<>>
    /\ sf.first = "execution" => sf.outcomes = <<ExecOutcome(sf)>>
    /\ sf.first = "timer" => sf.outcomes = << <<"timeout", sf.ms>> >>
    /\ sf.phase = "settled" => sf.aborted /\ sf.timer # "armed"

\* the timer has won, and the execution has settled afterwards without
\* changing the outcome
C29_Witness ==
  /\ sf.phase = "settled" /\ sf.first = "timer"
  /\ sf.exec \in {"fulfilled", "rejected"}
  /\ sf.outcomes = << <<"timeout", sf.ms>> >>
  /\ sf.aborted /\ sf.timer = "fired"

-----------------------------------------------------------------------------
(* secureContext.js: the validation of the arguments in runSecureFunction.
   Objects and arrays are heap cells with an identity; a cell lists its
   values, which are cells again or primitives. *)

\* longest argument list and longest list of values of a cell in the model
MaxItems == 2
\* maxObjectNesting in the model (10 in the program)
MaxObjectNesting == 2

Cells == {"obj1", "obj2"}
Primitive == "s"
ArgValues == Cells \cup {Primitive}

ItemLists == UNION {[1..n -> ArgValues] : n \in 0..MaxItems}

\* a check of the visited set that never finds anything
NeverSeen(seen, value) == FALSE

\* seen.has(value)
SeenHas(seen, value) == value \in seen

\* args.forEach(validateValue): forEach hands the index to the callback as
\* its second argument, which validateValue takes as the depth
TopLevelCalls(args) == [i \in 1..Len(args) |-> [value |-> args[i], depth |-> i - 1]]

\* value.forEach(item => validateValue(item, depth + 1))
ChildCalls(items, parentDepth) ==
  [i \in 1..Len(items) |-> [value |-> items[i], depth |-> parentDepth + 1]]

\* one call of validateValue: the first of the pending calls
validateValue(s) ==
  LET call == Head(s.work)
      rest == Tail(s.work)
  IN IF call.depth > MaxObjectNesting
     THEN [s EXCEPT !.phase = "threw", !.work = <<>>]
     ELSE IF call.value = Primitive
     THEN [s EXCEPT !.work = rest]
     ELSE IF SeenHas(s.seen, call.value)
     THEN [s EXCEPT !.work = rest, !.cuts = s.cuts + 1]
     ELSE [s EXCEPT !.seen = s.seen \cup {call.value},
                    !.descents[call.value] = s.descents[call.value] + 1,
                    !.work = ChildCalls(s.heap[call.value], call.depth) \o rest]

ValidateStep ==
  /\ sf.phase = "validating" /\ sf.work # <<>>
  /\ sf' = validateValue(sf)
  /\ UNCHANGED <<renderVars, lruRet, helperCache, loaded, compiled, everCached,
                 assembled, wt, classified, plain, sandbox, registered, renders, counters>>

\* every argument has been validated: the function goes on to the race
ValidateDone ==
  /\ sf.phase = "validating" /\ sf.work = <<>>
  /\ sf' = [sf EXCEPT !.phase = "valid"]
  /\ UNCHANGED <<renderVars, lruRet, helperCache, loaded, compiled, everCached,
                 assembled, wt, classified, plain, sandbox, registered, renders, counters>>

ValidateInit ==
  /\ RenderIdle
  /\ expressionCache = <<>>
  /\ lruRet = Undefined /\ helperCache = <<>> /\ loaded = NoLoad /\ compiled = NoCompile
  /\ everCached = {} /\ assembled = NoAssembly /\ wt = NoTimeoutCall
  /\ classified = NoClassification /\ plain = NoPlainRun /\ sandbox = NoSandbox
  /\ registered = NoHelper /\ renders = NoRenders /\ counters = NoCounters
  /\ \E heap \in [Cells -> ItemLists], args \in ItemLists :
       sf = [phase |-> "validating", heap |-> heap, args |-> args,
             work |-> TopLevelCalls(args), seen |-> {},
             descents |-> [c \in Cells |-> 0], cuts |-> 0]

ValidateNext == ValidateStep \/ ValidateDone

SpecValidate == ValidateInit /\ [][ValidateNext]_allVars /\ WF_allVars(ValidateNext)

\* C30: the validation of the arguments in runSecureFunction ends, by
\* returning or by throwing, for every argument list, lists with reference
\* cycles included, and it descends into each distinct object at most once.
C30_ValidationTerminatesOncePerObject ==
  /\ [](sf.phase \in {"validating", "valid", "threw"} =>
          \A c \in Cells : sf.descents[c] <= 1)
  /\ <>(sf.phase \in {"valid", "threw"})

\* an argument that contains itself has been validated: one descent, and the
\* second encounter was cut short
C30_Witness ==
  /\ sf.phase = "valid"
  /\ \E c \in Cells :
       /\ \E i \in 1..Len(sf.heap[c]) : sf.heap[c][i] = c
       /\ sf.descents[c] = 1
  /\ sf.cuts > 0

-----------------------------------------------------------------------------
(* fillVars.js: the expression cache as evalExpr uses it, call after call *)

\* evalExpr calls made in one run of the model
MaxLookups == 5

EvictionExprs == LRUKeys \cup {<<"?">>}

\* the cache part of one evalExpr call: has(expr); when absent, compile (which
\* may throw, leaving the cache alone) and set; then get
EvalExprCache(expr) ==
  /\ Len(evalLog) < MaxLookups
  /\ LET hit == LRUHas(expressionCache, expr)
     IN IF ~hit /\ ~Compiles(expr)
        THEN /\ lruRet' = "rejected"
             /\ UNCHANGED <<expressionCache, evalLog>>
        ELSE /\ lruRet' = IF hit THEN "hit"
                          ELSE IF Len(expressionCache) >= CacheMaxSize THEN "evicted"
                          ELSE "compiled"
             /\ expressionCache' =
                  LRUGet(IF hit THEN expressionCache
                         ELSE LRUSet(expressionCache, expr, expr, CacheMaxSize), expr)
             /\ evalLog' = Append(evalLog, expr)
  /\ UNCHANGED <<template, vars, helpers, options, pc, result, depth, stack, ev,
                 hostMath, helperCache, loaded, compiled, laterVars>>

\* fillVars called with options.clearCache
ClearExprCache ==
  /\ expressionCache # <<>>
  /\ lruRet' = "cleared"
  /\ expressionCache' = LRUClear(expressionCache)
  /\ UNCHANGED <<template, vars, helpers, options, pc, result, depth, stack, ev,
                 hostMath, evalLog, helperCache, loaded, compiled, laterVars>>

EvictionNext == (\E e \in EvictionExprs : EvalExprCache(e)) \/ ClearExprCache

SpecEviction == LRUInit /\ [][EvictionNext]_allVars

\* the place in the log of the latest evaluation of expr, 0 when there is none
LastEvaluation(log, expr) ==
  IF \E n \in 1..Len(log) : log[n] = expr
  THEN CHOOSE n \in 1..Len(log) : log[n] = expr /\ \A m \in (n + 1)..Len(log) : log[m] # expr
  ELSE 0

CachedKeys(c) == {c[n].key : n \in 1..Len(c)}

\* C31: when evalExpr inserts a new expression into a full expression cache,
\* exactly one entry leaves the cache, and it is the one whose latest
\* evaluation (insertion or hit) is older than that of every entry that stays.
C31_EvictsLeastRecentlyEvaluated ==
  [][ (/\ Len(expressionCache) >= CacheMaxSize
       /\ evalLog' # evalLog
       /\ ~LRUHas(expressionCache, evalLog'[Len(evalLog')]))
      => LET gone == CachedKeys(expressionCache) \ CachedKeys(expressionCache')
         IN /\ Cardinality(gone) = 1
            /\ CachedKeys(expressionCache') =
                 (CachedKeys(expressionCache) \ gone) \cup {evalLog'[Len(evalLog')]}
            /\ \A g \in gone, k \in CachedKeys(expressionCache) \ gone :
                 LastEvaluation(evalLog, g) < LastEvaluation(evalLog, k)
    ]_allVars

\* an insertion into a full cache has just evicted an entry, and an entry that
\* was inserted before the evicted one has stayed because it was hit since
C31_Witness ==
  /\ lruRet = "evicted"
  /\ \E k \in CachedKeys(expressionCache), n \in 1..Len(evalLog) :
       /\ evalLog[n] \notin CachedKeys(expressionCache)
       /\ \E m \in 1..(n - 1) : evalLog[m] = k
       /\ \A m \in (n + 1)..Len(evalLog) : evalLog[m] # evalLog[n]
       /\ LastEvaluation(evalLog, k) > n
       /\ LastEvaluation(evalLog, k) < Len(evalLog)

-----------------------------------------------------------------------------
(* loadHelperModule: the harvest of the functions of a module that has run.
   A module is described by what its run leaves behind: the entries of
   module.exports, the properties its function declarations and var
   statements put on the context object, and its const / let bindings, which
   live in the script scope and are no properties of the context. *)

HarvestNames == {"f", "g"}

ReturningDeclaration == <<"function", " ", "(x)", "{", "return", " ", "x+1", "}">>
VoidDeclaration == <<"function", " ", "()", "{", "log()", "}">>
ReturningArrow == <<"x", "=>", " ", "x+1">>

Absent == [kind |-> "absent", text |-> <<>>]
NumberValue == [kind |-> "number", text |-> <<>>]
FunctionValue(text) == [kind |-> "function", text |-> text]

\* what module.exports can hold under a name
ExportedValues ==
  {Absent, NumberValue, FunctionValue(ReturningDeclaration), FunctionValue(VoidDeclaration),
   FunctionValue(ReturningArrow)}

\* what the top level of the module can bind a name to: nothing, a function
\* declaration or var (a property of the context), or a const / let
TopLevelBindings ==
  {[how |-> "none", value |-> Absent]}
  \cup [how : {"declaration"},
        value : {FunctionValue(ReturningDeclaration), FunctionValue(VoidDeclaration), NumberValue}]
  \cup [how : {"lexical"},
        value : {FunctionValue(ReturningArrow), FunctionValue(ReturningDeclaration)}]

SAFE_G_Keys == {"Math", "Date", "console", "utils"}

\* Object.entries(ctx): the injected keys and the properties the run has added
ContextEntries(m) ==
  [k \in {"module", "exports"} \cup SAFE_G_Keys
          \cup {n \in HarvestNames : m.top[n].how = "declaration"} |->
     IF k \in HarvestNames THEN m.top[k].value ELSE FunctionValue(ReturningDeclaration)]

\* the first loop: the functions of module.exports that pass returnsSomething
FromExports(m) ==
  {k \in HarvestNames : m.exports[k].kind = "function" /\ returnsSomething(m.exports[k].text)}

\* the second loop: the functions on the context, injected keys skipped, that
\* are not in the bag yet and pass returnsSomething
FromContext(m, bag) ==
  LET entries == ContextEntries(m)
  IN {k \in DOMAIN entries :
        /\ k \notin {"module", "exports"} \cup SAFE_G_Keys
        /\ entries[k].kind = "function"
        /\ k \notin bag
        /\ returnsSomething(entries[k].text)}

HarvestBag(m) ==
  LET first == FromExports(m)
      second == FromContext(m, first)
  IN [k \in first \cup second |->
        IF k \in first THEN [from |-> "exports", text |-> m.exports[k].text]
        ELSE [from |-> "context", text |-> m.top[k].value.text]]

\* loadHelperModule on a module that passes the checks and runs to its end
Harvest ==
  /\ loaded.called /\ ~loaded.executed
  /\ loaded' = [loaded EXCEPT !.executed = TRUE, !.bag = HarvestBag(loaded.source)]
  /\ UNCHANGED <<renderVars, lruRet, helperCache, compiled, laterVars>>

HarvestInit ==
  /\ RenderIdle
  /\ expressionCache = <<>>
  /\ lruRet = Undefined /\ helperCache = <<>> /\ compiled = NoCompile
  /\ LaterIdle
  /\ \E e \in [HarvestNames -> ExportedValues], t \in [HarvestNames -> TopLevelBindings] :
       loaded = [called |-> TRUE, executed |-> FALSE, bag |-> <<>>,
                 source |-> [exports |-> e, top |-> t]]

HarvestNext == Harvest

SpecHarvest == HarvestInit /\ [][HarvestNext]_allVars

\* the names the table is to hold: the exported functions, and the other
\* top-level function bindings that pass the check
ExpectedNames(m) ==
  {k \in HarvestNames : m.exports[k].kind = "function" /\ returnsSomething(m.exports[k].text)}
  \cup {k \in HarvestNames :
          /\ m.exports[k].kind = "absent"
          /\ m.top[k].value.kind = "function"
          /\ returnsSomething(m.top[k].value.text)}

\* C32: for a module that loads, the table holds exactly the exported
\* functions and every other top-level function binding that has a return
\* value and whose name is not exported; functions without a return value,
\* values that are no functions and the injected globals are absent.
C32_TableIsExportsPlusTopLevelFunctions ==
  (loaded.called /\ loaded.executed) => DOMAIN loaded.bag = ExpectedNames(loaded.source)

-----------------------------------------------------------------------------
(* fillVars.js: require inside an expression. The functions of COMMON are
   functions of the host: their constructor is the host's Function, and code
   compiled by it runs in the host's global scope. *)

ALLOWLIST == {"path", "url", "querystring", "util", "buffer"}

ModuleNames == ALLOWLIST \cup {"fs", "child_process", "http"}

\* safeRequire(moduleName); the last field tells which require has loaded it
safeRequire(moduleName) ==
  IF moduleName \in ALLOWLIST
  THEN Outcome("value", <<"module " \o moduleName>>, NoError, "safeRequire")
  ELSE Outcome("throw", <<>>,
               Err("Error", "Module \"" \o moduleName \o "\" is not in the allowlist"),
               "none")

\* the realm a function belongs to: what COMMON spreads into the context comes
\* from the host, a function written in the expression is the context's own
RealmOf(f) == IF f \in {"require", "setTimeout"} THEN "host" ELSE "context"

\* Function("return process.mainModule.require")() run by the Function
\* constructor of a realm: process is a global of the host only
ProcessRequire(realm, moduleName) ==
  IF realm = "host"
  THEN Outcome("value", <<"module " \o moduleName>>, NoError, "hostRequire")
  ELSE Outcome("throw", <<>>, Err("ReferenceError", "process is not defined"), "none")

\* the expressions: require("m"), and f.constructor("return
\* process.mainModule.require")()("m") for f one of require, setTimeout and
\* an arrow function of the expression
RequireExprs ==
  [form : {"call"}, on : {"require"}, name : ModuleNames]
  \cup [form : {"constructor"}, on : {"require", "setTimeout", "arrow"}, name : ModuleNames]

RunRequire(e) ==
  IF e.form = "call" THEN safeRequire(e.name)
  ELSE ProcessRequire(RealmOf(e.on), e.name)

\* fillVars on the template {{ e }}: evalExpr, and render's catch around it
RenderRequire ==
  /\ sandbox.phase = "ready"
  /\ LET o == RunRequire(sandbox.expr)
         r == EvalSettled(o, <<"e">>, sandbox.debugMode)
         final == IF r.ok THEN r ELSE RenderCatch(r.error, sandbox.debugMode)
     IN sandbox' = [sandbox EXCEPT !.phase = "done", !.loadedBy = o.math,
                                   !.threw = (o.kind = "throw"),
                                   !.rejected = ~final.ok, !.result = final.text]
  /\ UNCHANGED <<renderVars, lruRet, helperCache, loaded, compiled, everCached,
                 assembled, wt, classified, plain, registered, renders, tailVars>>

RequireInit ==
  /\ RenderIdle
  /\ expressionCache = <<>>
  /\ lruRet = Undefined /\ helperCache = <<>> /\ loaded = NoLoad /\ compiled = NoCompile
  /\ everCached = {} /\ assembled = NoAssembly /\ wt = NoTimeoutCall
  /\ classified = NoClassification /\ plain = NoPlainRun
  /\ registered = NoHelper /\ renders = NoRenders /\ TailIdle
  /\ sandbox \in [phase : {"ready"}, expr : RequireExprs, debugMode : BOOLEAN,
                   loadedBy : {"none"}, threw : {FALSE}, rejected : {FALSE},
                   result : {<<>>}]

RequireNext == RenderRequire

SpecRequire == RequireInit /\ [][RequireNext]_allVars

\* C33: an expression gets a module only through require(name) with name on
\* the allowlist; for any other name require raises 'Module "name" is not in
\* the allowlist', which is rendered as an error marker; and the host's own
\* require is never reached from an expression.
C33_OnlyAllowlistedModules ==
  sandbox.phase = "done" =>
    /\ sandbox.loadedBy # "hostRequire"
    /\ sandbox.loadedBy = "safeRequire" => sandbox.expr.name \in ALLOWLIST
    /\ (sandbox.expr.form = "call" /\ sandbox.expr.name \notin ALLOWLIST) =>
         /\ ~sandbox.rejected
         /\ sandbox.result =
              <<ErrorMarker("Module \"" \o sandbox.expr.name \o "\" is not in the allowlist")>>

-----------------------------------------------------------------------------
(* compileHelper.js: a call of the function that wrapWithTimeout puts around
   the helper. The executor of the promise arms the timer, calls the helper
   and clears the timer, all in one synchronous run. *)

\* resolve(result): a plain value settles the promise, a promise is adopted
ResolveWith(w, state) ==
  IF state = "returnedValue"
  THEN [w EXCEPT !.outcomes = IF w.outcomes = <<>> THEN << <<"result", w.value>> >>
                              ELSE w.outcomes,
                 !.phase = "settled", !.settledAt = w.elapsed]
  ELSE [w EXCEPT !.phase = "adopted"]

\* originalFn.apply has returned or thrown: clearTimeout(timeoutId), then
\* resolve(result) or reject(error)
AfterApply(w) ==
  LET c == [w EXCEPT !.timer = "cleared"]
  IN CASE w.fn = "throwsSync" ->
            [c EXCEPT !.fnState = "threw", !.phase = "settled", !.settledAt = w.elapsed,
                      !.outcomes = << <<"error", w.value>> >>]
       [] w.fn \in {"returnsValue", "blocksThenResolves"} ->
            ResolveWith([c EXCEPT !.fnState = "returnedValue"], "returnedValue")
       [] OTHER -> ResolveWith([c EXCEPT !.fnState = "pending"], "returnedPromise")

\* the wrapper is called: new Promise(executor) runs the executor at once
WrapperCall ==
  /\ wt.phase = "ready"
  /\ LET armed == [wt EXCEPT !.timer = "armed"]
     IN wt' = IF wt.fn \in {"blocksThenResolves", "spins"}
              THEN [armed EXCEPT !.phase = "applying", !.fnState = "running"]
              ELSE AfterApply(armed)
  /\ UNCHANGED <<renderVars, lruRet, helperCache, loaded, compiled, everCached,
                 assembled, moreVars>>

\* time passes; when the event loop is free, a timer that is armed and due
\* runs its callback: reject(new Error('Helper function execution timed out'))
WrapperTick ==
  /\ wt.phase \in {"applying", "adopted"}
  /\ wt.elapsed <= wt.ms
  /\ LET later == [wt EXCEPT !.elapsed = wt.elapsed + 1]
     IN wt' = IF later.phase = "adopted" /\ later.timer = "armed" /\ later.elapsed >= later.ms
              THEN [later EXCEPT !.timer = "fired", !.phase = "settled",
                                 !.settledAt = later.elapsed,
                                 !.outcomes = << <<"timeout", later.ms>> >>]
              ELSE later
  /\ UNCHANGED <<renderVars, lruRet, helperCache, loaded, compiled, everCached,
                 assembled, moreVars>>

\* the helper that kept the thread returns
WrapperApplyReturns ==
  /\ wt.phase = "applying" /\ wt.fn = "blocksThenResolves" /\ wt.elapsed > wt.ms
  /\ wt' = AfterApply(wt)
  /\ UNCHANGED <<renderVars, lruRet, helperCache, loaded, compiled, everCached,
                 assembled, moreVars>>

\* the promise the helper returned settles, and the wrapper's promise with it
HelperPromiseSettles ==
  /\ wt.phase = "adopted" /\ wt.fn \in {"resolves", "rejects"}
  /\ wt' = [wt EXCEPT !.phase = "settled", !.settledAt = wt.elapsed,
                      !.fnState = IF wt.fn = "resolves" THEN "fulfilled" ELSE "rejected",
                      !.outcomes = << <<IF wt.fn = "resolves" THEN "result" ELSE "error",
                                        wt.value>> >>]
  /\ UNCHANGED <<renderVars, lruRet, helperCache, loaded, compiled, everCached,
                 assembled, moreVars>>

WrapperInit ==
  /\ RenderIdle
  /\ expressionCache = <<>>
  /\ lruRet = Undefined /\ helperCache = <<>> /\ loaded = NoLoad /\ compiled = NoCompile
  /\ MoreIdle
  /\ everCached = {} /\ assembled = NoAssembly
  /\ wt \in [phase : {"ready"}, fn : FnKinds, value : FnValues, ms : 1..TimeoutTicks,
             fnState : {"notCalled"}, timer : {"none"}, elapsed : {0},
             outcomes : {<<>>}, settledAt : {0}]

WrapperNext == WrapperCall \/ WrapperTick \/ WrapperApplyReturns \/ HelperPromiseSettles

SpecWrapper == WrapperInit /\ [][WrapperNext]_allVars

\* C36: the promise of a helper wrapped by wrapWithTimeout is rejected with
\* the timeout error whenever the call has not produced its final result
\* within executionTimeout, a helper whose promise never settles included.
C36_WrapperTimesOut ==
  (/\ wt.phase \in {"adopted", "settled"}
   /\ wt.elapsed >= wt.ms
   /\ wt.phase = "settled" => wt.settledAt >= wt.ms)
    => wt.outcomes = << <<"timeout", wt.ms>> >>

\* the validation run to its end from the state s
RECURSIVE ValidationVerdict(_)
ValidationVerdict(s) ==
  IF s.phase = "threw" THEN "threw"
  ELSE IF s.work = <<>> THEN "valid"
  ELSE ValidationVerdict(validateValue(s))

\* the verdict on one argument taken by itself, its depth counted from 0
VerdictAlone(heap, arg) ==
  ValidationVerdict([phase |-> "validating", heap |-> heap, args |-> <<arg>>,
                     work |-> <<[value |-> arg, depth |-> 0]>>, seen |-> {},
                     descents |-> [c \in Cells |-> 0], cuts |-> 0])

\* C37: the validation in runSecureFunction judges every argument by itself,
\* wherever it stands in the list: the list is accepted exactly when each
\* argument keeps within the limits, its nesting depth counted from 0 at the
\* argument.
C37_ArgumentsJudgedIndependently ==
  sf.phase \in {"valid", "threw"} =>
    (sf.phase = "valid" <=>
       \A i \in 1..Len(sf.args) : VerdictAlone(sf.heap, sf.args[i]) = "valid")

-----------------------------------------------------------------------------
(* secureContext.js: createSecureContext and what it does to the objects it
   puts into the context. The constructors of DEFAULT_SAFE_GLOBALS are the
   host's own. *)

DEFAULT_SAFE_GLOBALS ==
  {"Object", "Array", "String", "Number", "Boolean", "Date", "RegExp", "Error", "Math",
   "JSON", "console", "utils", "Promise"}

BLOCKED_KEYS ==
  {"constructor", "prototype", "__proto__", "eval", "Function", "WebAssembly", "require",
   "process", "global", "globalThis", "window", "Buffer", "setTimeout", "setInterval",
   "setImmediate", "fetch", "XMLHttpRequest", "Worker"}

\* the constructors whose prototype createSecureContext freezes
FrozenConstructors == {"Object", "Array", "String", "Number", "Function"}

\* keys a caller may pass in additionalGlobals, each with an object of its own
AdditionalKeys == {"Object", "Array", "Function", "myLib"}

\* the context after the two loops: each key with where its value comes from
ContextGlobals(additional, allowOverwrite) ==
  LET taken == {k \in additional :
                  k \notin BLOCKED_KEYS /\ (k \notin DEFAULT_SAFE_GLOBALS \/ allowOverwrite)}
  IN [k \in DEFAULT_SAFE_GLOBALS \cup taken |-> IF k \in taken THEN "caller" ELSE "host"]

\* if (freezePrototypes && context.Object) Object.freeze(context.X.prototype)
\* for the five constructors: the host's prototypes that end up frozen
FrozenByCreate(globals, freezePrototypes, frozenBefore) ==
  IF freezePrototypes /\ "Object" \in DOMAIN globals
  THEN frozenBefore \cup {k \in FrozenConstructors \cap DOMAIN globals : globals[k] = "host"}
  ELSE frozenBefore

CreateSecureContext ==
  /\ sandbox.phase = "ready"
  /\ LET globals == ContextGlobals(sandbox.additional, sandbox.allowOverwrite)
     IN sandbox' = [sandbox EXCEPT
                      !.phase = "created",
                      !.context = globals,
                      !.hostFrozen = FrozenByCreate(globals, sandbox.freezePrototypes,
                                                    sandbox.hostFrozen)]
  /\ UNCHANGED <<renderVars, lruRet, helperCache, loaded, compiled, everCached,
                 assembled, wt, classified, plain, registered, renders, tailVars>>

CreateInit ==
  /\ RenderIdle
  /\ expressionCache = <<>>
  /\ lruRet = Undefined /\ helperCache = <<>> /\ loaded = NoLoad /\ compiled = NoCompile
  /\ everCached = {} /\ assembled = NoAssembly /\ wt = NoTimeoutCall
  /\ classified = NoClassification /\ plain = NoPlainRun
  /\ registered = NoHelper /\ renders = NoRenders /\ TailIdle
  /\ \E before \in {{}, {"Array"}} :
       sandbox \in [phase : {"ready"}, additional : SUBSET AdditionalKeys,
                     freezePrototypes : BOOLEAN, allowOverwrite : BOOLEAN,
                     hostBefore : {before}, hostFrozen : {before}, context : {<<>>}]

CreateNext == CreateSecureContext

SpecCreate == CreateInit /\ [][CreateNext]_allVars

\* C38: createSecureContext changes nothing outside the context it returns:
\* the host's built-in objects and prototypes are as extensible and writable
\* after the call as they were before it.
C38_HostUnchangedByCreate ==
  sandbox.phase = "created" => sandbox.hostFrozen = sandbox.hostBefore

====
